---- MODULE Spec2Model ----
(***************************************************************************)
(* A model of the query core of the airline administration web app:        *)
(*   src/src/pagination.py             Pagination                          *)
(*   src/src/lowercase_default_dict.py LowercaseDefaultDict                *)
(*   src/database.py                   the attribute catalog, the sort     *)
(*                                     resolver, the filtered SELECT and   *)
(*                                     the query executor                  *)
(*   src/session.py, src/routes.py     the session, the login gate and the *)
(*                                     ticket listing routes               *)
(*                                                                         *)
(* Python strings are sequences of one-character strings, so that          *)
(* str.lower() and str.upper() are computed character by character.        *)
(* A value that may be None is a record [k, v]: k = "none" or k = "str".   *)
(***************************************************************************)
EXTENDS Integers, Sequences, FiniteSets, TLC

VARIABLES
    table_attributes,   \* database.py:26, the global catalog cache
    call,               \* the most recent call: its name and its arguments
    ret,                \* what that call returned
    sqlLog,             \* the statements that call sent to the database, in order,
                        \* each with whether the database executed it; for a
                        \* call of execute_and_fetch itself, the steps it took
    session,            \* routes.py:39, the global Session object
    connections,        \* the connections execute_and_fetch has opened and
                        \* not closed
    logins              \* the history of the logins and logouts: the row of
                        \* the most recent successful login, and for every
                        \* client whether it logged in and has not logged
                        \* out since

vars == <<table_attributes, call, ret, sqlLog, session, connections, logins>>

----------------------------------------------------------------------------
(* Bounds of the model *)

\* requested pages range over -MaxPage .. MaxPage
MaxPage == 9

\* page sizes range over 1 .. MaxPerPage
MaxPerPage == 3

\* total row counts range over 0 .. MaxTotal
MaxTotal == 7

\* the Tickets table has its first MaxCols columns
MaxCols == 3

----------------------------------------------------------------------------
(* Python values *)

None == [k |-> "none", v |-> <<>>]

Str(s) == [k |-> "str", v |-> s]

\* isinstance(x, str)
IsStr(x) == x.k = "str"

UpperCase == <<"A", "B", "C", "D", "E", "F", "G", "H", "I", "J", "K", "L", "M",
               "N", "O", "P", "Q", "R", "S", "T", "U", "V", "W", "X", "Y", "Z">>

LowerCase == <<"a", "b", "c", "d", "e", "f", "g", "h", "i", "j", "k", "l", "m",
               "n", "o", "p", "q", "r", "s", "t", "u", "v", "w", "x", "y", "z">>

\* the letters, each with its lower-case and its upper-case form
Letters == {[lo |-> LowerCase[i], up |-> UpperCase[i]] : i \in 1..Len(UpperCase)}

\* chr -> chr.lower(), on the upper-case letters
ToLower == [c \in {l.up : l \in Letters} |-> (CHOOSE l \in Letters : l.up = c).lo]

\* chr -> chr.upper(), on the lower-case letters
ToUpper == [c \in {l.lo : l \in Letters} |-> (CHOOSE l \in Letters : l.lo = c).up]

\* str.lower(): every upper-case letter becomes its lower-case form
Lower(s) == [i \in 1..Len(s) |-> IF s[i] \in DOMAIN ToLower THEN ToLower[s[i]] ELSE s[i]]

\* str.upper(): every lower-case letter becomes its upper-case form
Upper(s) == [i \in 1..Len(s) |-> IF s[i] \in DOMAIN ToUpper THEN ToUpper[s[i]] ELSE s[i]]

\* str(x) as an f-string renders it: None becomes the text None
Format(x) == IF IsStr(x) THEN x.v ELSE <<"N", "o", "n", "e">>

\* x in seq, for a Python list
InList(x, seq) == \E i \in 1..Len(seq) : seq[i] = x

\* list.remove(x) left out: the list as it was
ListRemove_Skipped(seq, x) == seq

\* list.remove(x): the list without the first occurrence of x
ListRemove(seq, x) ==
    LET i == CHOOSE j \in 1..Len(seq) :
                 seq[j] = x /\ \A h \in 1..(j - 1) : seq[h] # x
    IN  SubSeq(seq, 1, i - 1) \o SubSeq(seq, i + 1, Len(seq))

----------------------------------------------------------------------------
(* src/src/pagination.py *)

\* math.ceil(a / b) for a >= 0 and b > 0
Ceil(a, b) == (a + b - 1) \div b

Min(a, b) == IF a < b THEN a ELSE b

Max(a, b) == IF a > b THEN a ELSE b

\* Pagination.__init__ with the page count rounded down instead of up
Pagination_FloorPages(page_no, tickets_per_page, total_tickets, max_jump) ==
    LET num_pages == total_tickets \div tickets_per_page
    IN  [page     |-> Min(num_pages, Max(1, page_no)),
         per_page |-> tickets_per_page,
         total    |-> total_tickets,
         pages    |-> num_pages,
         has_prev |-> page_no > 1,
         has_next |-> page_no < num_pages,
         max_jump |-> max_jump]

\* Pagination.__init__
Pagination(page_no, tickets_per_page, total_tickets, max_jump) ==
    LET num_pages == Ceil(total_tickets, tickets_per_page)
    IN  [page     |-> Min(num_pages, Max(1, page_no)),
         per_page |-> tickets_per_page,
         total    |-> total_tickets,
         pages    |-> num_pages,
         has_prev |-> page_no > 1,
         has_next |-> page_no < num_pages,
         max_jump |-> max_jump]

DefaultMaxJump == 5

----------------------------------------------------------------------------
(* The database: its tables, as the zero-row probe reports their columns *)

\* column names, abbreviated: id, cl(ass), pr(ice), sn (seat number), nm (name)
C_id == <<"i", "d">>

C_cl == <<"c", "l">>

C_pr == <<"p", "r">>

C_sn == <<"s", "n">>

\* the names in cursor.description of Tickets
TicketsDescription == SubSeq(<<C_id, C_cl, C_pr, C_sn>>, 1, MaxCols)

\* the names in cursor.description of Users; the second one was created quoted,
\* so the database reports it in mixed case
UsersDescription == <<C_id, <<"N", "m">> >>

T_tickets == <<"t", "k">>

T_users == <<"u", "s">>

\* the tables of the schema, by the lower-case name the database folds an
\* unquoted identifier to
DbTables == (T_tickets :> TicketsDescription) @@ (T_users :> UsersDescription)

----------------------------------------------------------------------------
(* src/src/lowercase_default_dict.py: a dict is a function from its keys; a *)
(* read of a missing key inserts list() under it, as defaultdict does       *)

\* __getitem__ without the lower(): a plain defaultdict read
DictGetItem_CaseSensitive(d, item) ==
    IF item \in DOMAIN d
    THEN [d |-> d, val |-> d[item]]
    ELSE [d |-> d @@ (item :> << >>), val |-> << >>]

\* LowercaseDefaultDict.__getitem__: the dict after the read, and the value
DictGetItem(d, item) ==
    LET key == Lower(item)
    IN  IF key \in DOMAIN d
        THEN [d |-> d, val |-> d[key]]
        ELSE [d |-> d @@ (key :> << >>), val |-> << >>]

\* LowercaseDefaultDict.__setitem__
DictSetItem(d, key, value) ==
    [k \in DOMAIN d \cup {Lower(key)} |-> IF k = Lower(key) THEN value ELSE d[k]]

----------------------------------------------------------------------------
(* src/database.py: the attribute catalog.  A function of the module is an   *)
(* operator from the dict before the call to a record [d, val, log]: the     *)
(* dict after the call, the value returned, the statements sent.  Where a    *)
(* function uses the result of a call several times, the statements after    *)
(* the call are an operator of their own that takes that result.             *)

\* the statement fetch_table_attributes sends: SELECT * FROM {table} WHERE 1 = 0
ProbeSql(table) == [kind |-> "probe", table |-> table]

\* execute_and_fetch(lambda c: c.description, sql) for the probe of `table`:
\* None when the connection or the statement fails, else the description
ProbeDescription(table, connOk) ==
    IF connOk /\ Lower(table) \in DOMAIN DbTables
    THEN [k |-> "desc", v |-> DbTables[Lower(table)]]
    ELSE None

\* one entry of the log: a statement handed to execute_and_fetch, and whether
\* connecting and executing it succeeded
Sent(sql, ok) == [sql |-> sql, ok |-> ok]

\* lines 323-328 without the assignment of line 326
store_description_NoStore(d, table, description) ==
    [d   |-> d,
     val |-> description.k # "none",
     log |-> <<Sent(ProbeSql(table), description.k # "none")>>]

\* fetch_table_attributes, lines 323-328: the description is in hand
store_description(d, table, description) ==
    IF description.k = "none"
    THEN [d |-> d, val |-> FALSE, log |-> <<Sent(ProbeSql(table), FALSE)>>]
    ELSE [d   |-> DictSetItem(d, table,
                      [i \in 1..Len(description.v) |-> Lower(description.v[i])]),
          val |-> TRUE,
          log |-> <<Sent(ProbeSql(table), TRUE)>>]

\* fetch_table_attributes
fetch_table_attributes(d, table, connOk) ==
    store_description(d, table, ProbeDescription(table, connOk))

\* get_table_attributes, lines 307-308: first is table_attributes[table] as read
fetch_if_empty(first, table, connOk) ==
    IF Len(first.val) = 0
    THEN fetch_table_attributes(first.d, table, connOk)
    ELSE [d |-> first.d, val |-> TRUE, log |-> << >>]

\* get_table_attributes, line 310: return table_attributes[table]
return_attributes(fetched, table) ==
    [d   |-> DictGetItem(fetched.d, table).d,
     val |-> DictGetItem(fetched.d, table).val,
     log |-> fetched.log]

\* get_table_attributes
get_table_attributes(d, table, connOk) ==
    return_attributes(fetch_if_empty(DictGetItem(d, table), table, connOk), table)

\* the membership test of line 302 against the columns of every table
attribute_in_AnyTable(attrs, attribute) ==
    [d   |-> attrs.d,
     val |-> \E key \in DOMAIN DbTables :
                 \E i \in 1..Len(DbTables[key]) :
                     Lower(DbTables[key][i]) = Lower(attribute),
     log |-> attrs.log]

\* valid_table_attribute, the membership test: attrs is get_table_attributes(table)
attribute_in(attrs, attribute) ==
    [d |-> attrs.d, val |-> InList(Lower(attribute), attrs.val), log |-> attrs.log]

\* valid_table_attribute, for a str attribute
valid_table_attribute(d, table, attribute, connOk) ==
    attribute_in(get_table_attributes(d, table, connOk), attribute)

----------------------------------------------------------------------------
(* src/database.py: the sort resolver *)

S_asc == <<"a", "s", "c">>

S_desc == <<"d", "e", "s", "c">>

\* the upper-case texts of the two directions
T_ASC == <<"A", "S", "C">>

T_DESC == <<"D", "E", "S", "C">>

\* lines 36-38: a direction that is no str or not asc/desc becomes asc
checked_sort_dir(sort_dir) ==
    IF ~IsStr(sort_dir) \/ Lower(sort_dir.v) \notin {S_asc, S_desc}
    THEN S_asc
    ELSE sort_dir.v

\* lines 33-40 without the return None of line 34
checked_sort_Unchecked(valid, sort_by, sort_dir) ==
    [d   |-> valid.d,
     val |-> [k |-> "pair", by |-> Lower(sort_by.v),
              dir |-> Lower(checked_sort_dir(sort_dir))],
     log |-> valid.log]

\* lines 33-40 with an invalid direction rejected like an invalid column
checked_sort_RejectDir(valid, sort_by, sort_dir) ==
    IF ~valid.val \/ ~IsStr(sort_dir) \/ Lower(sort_dir.v) \notin {S_asc, S_desc}
    THEN [d |-> valid.d, val |-> None, log |-> valid.log]
    ELSE [d   |-> valid.d,
          val |-> [k |-> "pair", by |-> Lower(sort_by.v), dir |-> Lower(sort_dir.v)],
          log |-> valid.log]

\* validate_sort_params, lines 33-40: valid is valid_table_attribute(table, sort_by)
checked_sort(valid, sort_by, sort_dir) ==
    IF ~valid.val
    THEN [d |-> valid.d, val |-> None, log |-> valid.log]
    ELSE [d   |-> valid.d,
          val |-> [k |-> "pair", by |-> Lower(sort_by.v),
                   dir |-> Lower(checked_sort_dir(sort_dir))],
          log |-> valid.log]

\* validate_sort_params: val is None or the pair (sort_by.lower(), sort_dir.lower())
validate_sort_params(d, table, sort_by, sort_dir, connOk) ==
    IF ~IsStr(sort_by)
    THEN [d |-> d, val |-> None, log |-> << >>]
    ELSE checked_sort(valid_table_attribute(d, table, sort_by.v, connOk),
                      sort_by, sort_dir)

\* one item of an ORDER BY list: the text "{col} {dir}"
SortKey(col, dir) == [col |-> col, dir |-> dir]

\* lines 57-67 with the clause made of the requested column alone
criterion_RequestedOnly(attrs, sort_params) ==
    LET by   == IF sort_params.k = "pair" THEN sort_params.by ELSE attrs[1]
        dir  == IF sort_params.k = "pair" THEN sort_params.dir ELSE S_asc
    IN  <<SortKey(by, Upper(dir))>>

\* complete_order_by, lines 57-67: the items of the clause, from the copy of
\* the catalog and the value of validate_sort_params
criterion(attrs, sort_params) ==
    LET by   == IF sort_params.k = "pair" THEN sort_params.by ELSE attrs[1]
        dir  == IF sort_params.k = "pair" THEN sort_params.dir ELSE S_asc
        rest == IF InList(by, attrs) THEN ListRemove(attrs, by) ELSE attrs
    IN  <<SortKey(by, Upper(dir))>>
        \o [i \in 1..Len(rest) |-> SortKey(rest[i], Upper(S_asc))]

\* complete_order_by, lines 57-69: got is get_table_attributes(table),
\* validated is validate_sort_params(table, sort_by, sort_dir)
order_by_clause(got, validated) ==
    [d   |-> validated.d,
     val |-> criterion(got.val, validated.val),
     log |-> got.log \o validated.log]

\* complete_order_by, lines 52-69: got is get_table_attributes(table)
order_by_attrs(got, table, sort_by, sort_dir, connOk) ==
    IF Len(got.val) = 0
    THEN [d |-> got.d, val |-> << >>, log |-> got.log]
    ELSE order_by_clause(got, validate_sort_params(got.d, table, sort_by,
                                                   sort_dir, connOk))

\* complete_order_by: val is the list of the items of the ORDER BY clause it
\* returns, in order; the empty list stands for the empty string
complete_order_by(d, table, sort_by, sort_dir, connOk) ==
    order_by_attrs(get_table_attributes(d, table, connOk), table, sort_by,
                   sort_dir, connOk)

----------------------------------------------------------------------------
(* src/database.py: the filtered SELECT *)

\* src/src/filters.py
Filters == {"=", "<", ">", "<>", "~", "LIKE"}

\* the outcome of execute_and_fetch(dict_fetchall, sql, params) for a SELECT:
\* None when connecting or executing fails, else the rows
QueryResult(execOk) == IF execOk THEN [k |-> "rows", v |-> << >>] ELSE None

\* the result r of a call, with the statements sent before it put first
AfterLog(log, r) == [d |-> r.d, val |-> r.val, log |-> log \o r.log]

\* lines 561-566 with the fallback of complete_order_by also taken when the
\* requested sort is rejected
sort_query_DefaultOrder(validated, table, sort_by, sort_dir, complete_sort, connOk) ==
    IF complete_sort
    THEN AfterLog(validated.log,
                  complete_order_by(validated.d, table, sort_by, sort_dir, connOk))
    ELSE [d   |-> validated.d,
          val |-> <<SortKey(Format(sort_by), Format(sort_dir))>>,
          log |-> validated.log]

\* select_from_table_by_filter, lines 561-566: the ORDER BY clause; validated
\* is validate_sort_params(table, sort_by, sort_dir) of line 559
sort_query(validated, table, sort_by, sort_dir, complete_sort, connOk) ==
    IF validated.val.k = "none"
    THEN [d |-> validated.d, val |-> << >>, log |-> validated.log]
    ELSE IF complete_sort
         THEN AfterLog(validated.log,
                       complete_order_by(validated.d, table, sort_by, sort_dir, connOk))
         ELSE [d   |-> validated.d,
               val |-> <<SortKey(Format(sort_by), Format(sort_dir))>>,
               log |-> validated.log]

\* lines 544-557: the WHERE expression attr_val
attr_val(attribute, filter_val, no_lower) ==
    IF IsStr(filter_val) /\ ~no_lower
    THEN [fn |-> "lower", name |-> attribute]
    ELSE [fn |-> "", name |-> attribute]

\* lines 544-557 with the wildcards of line 555 put around every lowered value
bound_filter_val_AlwaysWild(filter_type, filter_val, no_lower) ==
    IF IsStr(filter_val) /\ ~no_lower
    THEN Str(<<"%">> \o Lower(filter_val.v) \o <<"%">>)
    ELSE filter_val

\* lines 544-557: the value bound to %s
bound_filter_val(filter_type, filter_val, no_lower) ==
    IF IsStr(filter_val) /\ ~no_lower
    THEN IF filter_type = "LIKE"
         THEN Str(<<"%">> \o Lower(filter_val.v) \o <<"%">>)
         ELSE Str(Lower(filter_val.v))
    ELSE filter_val

\* lines 568-579: the statement
filter_sql(select_operation, table, attribute, filter_type, filter_val, limit, offset, order, no_lower) ==
    [kind   |-> "select",
     select |-> select_operation,
     table  |-> table,
     where  |-> attr_val(attribute, filter_val, no_lower),
     op     |-> filter_type,
     order  |-> order,
     limit  |-> limit,
     offset |-> offset,
     params |-> <<bound_filter_val(filter_type, filter_val, no_lower)>>]

\* lines 568-583: ordered is the ORDER BY clause; the statement is executed
execute_filter(ordered, select_operation, table, attribute, filter_type, filter_val, limit, offset, no_lower, execOk) ==
    [d   |-> ordered.d,
     val |-> QueryResult(execOk),
     log |-> ordered.log
             \o <<Sent(filter_sql(select_operation, table, attribute, filter_type,
                                  filter_val, limit, offset, ordered.val, no_lower),
                       execOk)>>]

\* select_from_table_by_filter, lines 541-583: valid is
\* valid_table_attribute(table, attribute)
filter_validated(valid, select_operation, table, attribute, filter_type, filter_val, limit, offset, sort_by, sort_dir, complete_sort, no_lower, connOk, execOk) ==
    IF ~valid.val
    THEN [d |-> valid.d, val |-> None, log |-> valid.log]
    ELSE AfterLog(valid.log,
             execute_filter(
                 sort_query(validate_sort_params(valid.d, table, sort_by, sort_dir, connOk),
                            table, sort_by, sort_dir, complete_sort, connOk),
                 select_operation, table, attribute, filter_type, filter_val,
                 limit, offset, no_lower, execOk))

\* select_from_table_by_filter
select_from_table_by_filter(d, select_operation, table, attribute, filter_type, filter_val, limit, offset, sort_by, sort_dir, complete_sort, no_lower, connOk, execOk) ==
    filter_validated(valid_table_attribute(d, table, attribute, connOk),
                     select_operation, table, attribute, filter_type, filter_val,
                     limit, offset, sort_by, sort_dir, complete_sort, no_lower,
                     connOk, execOk)

\* search_table_by_filter
search_table_by_filter(d, table, attribute, filter_type, filter_val, limit, offset, sort_by, sort_dir, no_lower, connOk, execOk) ==
    select_from_table_by_filter(d, <<"*">>, table, attribute, filter_type,
                                filter_val, limit, offset, sort_by, sort_dir,
                                TRUE, no_lower, connOk, execOk)

----------------------------------------------------------------------------
(* The operations and their inputs *)

PageNos == (0 - MaxPage)..MaxPage

PageSizes == 1..MaxPerPage

Totals == 0..MaxTotal

\* src/session.py, Session.__init__
NewSession == [name |-> None, userid |-> None, logged_in |-> FALSE, isadmin |-> FALSE]

\* the clients of the web application
Clients == {1, 2}

\* no client has logged in
NoLogins == [last |-> None, of |-> [c \in Clients |-> NewSession]]

Init ==
    /\ table_attributes = << >>
    /\ call = [op |-> "none"]
    /\ ret = None
    /\ sqlLog = << >>
    /\ session = NewSession
    /\ connections = 0
    /\ logins = NoLogins

\* a caller constructs Pagination(page_no, tickets_per_page, total_tickets)
NewPagination ==
    \E page_no \in PageNos, per \in PageSizes, total \in Totals :
        /\ call' = [op |-> "Pagination", page_no |-> page_no,
                    tickets_per_page |-> per, total_tickets |-> total]
        /\ ret' = Pagination(page_no, per, total, DefaultMaxJump)
        /\ UNCHANGED <<table_attributes, sqlLog, session, connections, logins>>

\* table names as callers write them: Tickets in two letter cases, Users, and
\* a table the database does not have
TableNames == {<<"T", "k">>, T_tickets, T_users, <<"n", "o">>}

\* attribute names a request may carry: catalog columns in either letter case,
\* a column of Users only, and a column followed by more SQL
AttributeNames == {C_id, <<"C", "l">>, <<"n", "m">>, <<"i", "d", ";", "x">>}

\* requested sort columns: none, the first catalog column, another catalog
\* column in mixed case, a column of Users only, a column followed by more SQL
SortBys == {None, Str(C_id), Str(<<"C", "l">>), Str(<<"n", "m">>),
            Str(<<"c", "l", ";", "x">>)}

\* requested sort directions: none, asc and desc in several letter cases, and
\* one that is neither
SortDirs == {None, Str(S_asc), Str(<<"A", "s", "c">>), Str(S_desc),
             Str(<<"D", "E", "S", "C">>), Str(<<"u", "p">>)}

\* a caller reads the catalog of a table
GetTableAttributes ==
    \E table \in TableNames, connOk \in BOOLEAN :
        \E r \in {get_table_attributes(table_attributes, table, connOk)} :
            /\ call' = [op |-> "get_table_attributes", table |-> table]
            /\ table_attributes' = r.d
            /\ ret' = [k |-> "attrs", v |-> r.val]
            /\ sqlLog' = r.log
            /\ UNCHANGED <<session, connections, logins>>

\* a caller validates an attribute name, the inputs drawn from the given sets
ValidTableAttributeOf(tables, attributes) ==
    \E table \in tables, attribute \in attributes, connOk \in BOOLEAN :
        \E r \in {valid_table_attribute(table_attributes, table, attribute, connOk)} :
            /\ call' = [op |-> "valid_table_attribute", table |-> table,
                        attribute |-> attribute]
            /\ table_attributes' = r.d
            /\ ret' = [k |-> "bool", v |-> r.val]
            /\ sqlLog' = r.log
            /\ UNCHANGED <<session, connections, logins>>

ValidTableAttribute == ValidTableAttributeOf(TableNames, AttributeNames)

\* a caller asks for the ORDER BY clause of a listing
CompleteOrderBy ==
    \E table \in TableNames, sort_by \in SortBys, sort_dir \in SortDirs,
       connOk \in BOOLEAN :
        \E r \in {complete_order_by(table_attributes, table, sort_by, sort_dir, connOk)} :
            /\ call' = [op |-> "complete_order_by", table |-> table,
                        sort_by |-> sort_by, sort_dir |-> sort_dir]
            /\ table_attributes' = r.d
            /\ ret' = [k |-> "orderby", v |-> r.val]
            /\ sqlLog' = r.log
            /\ UNCHANGED <<session, connections, logins>>

Next ==
    \/ GetTableAttributes
    \/ ValidTableAttribute
    \/ CompleteOrderBy

Spec == Init /\ [][Next]_vars

----------------------------------------------------------------------------
(* The filtered SELECT and its inputs *)

\* select_operation of the count query of routes.py:265
CountTickets == <<"C", "o", "u", "n", "t">>

TICKETS_PER_PAGE == 50

\* an int, or no value, for limit and offset
IntVal(n) == [k |-> "int", n |-> n]

\* a filter value that is no str: its decimal text
Num(text) == [k |-> "num", v |-> text]

\* tables of a filtered SELECT: Tickets as the code writes it, and a table the
\* database does not have
FilterTables == {<<"T", "k">>, <<"n", "o">>}

\* WHERE attributes: a catalog column in mixed case, a column of Users only,
\* and a column followed by more SQL
FilterAttributes == {<<"I", "d">>, <<"n", "m">>, <<"i", "d", ";", "x">>}

\* requested sorts of a filtered SELECT
FilterSortBys == {None, Str(<<"C", "l">>), Str(<<"c", "l", ";", "x">>)}

FilterSortDirs == {None, Str(T_DESC), Str(<<"a", "s", "c", ";", "x">>)}

\* a caller runs select_from_table_by_filter, as the count query of
\* /tickets/searched does for a numeric attribute, with or without complete_sort
SelectFromTableByFilter ==
    \E table \in FilterTables, attribute \in FilterAttributes,
       sort_by \in FilterSortBys, sort_dir \in FilterSortDirs,
       complete_sort \in BOOLEAN, connOk \in BOOLEAN, execOk \in BOOLEAN :
        \E r \in {select_from_table_by_filter(table_attributes, CountTickets, table,
                      attribute, "=", Num(<<"4", "2">>), None, None, sort_by,
                      sort_dir, complete_sort, FALSE, connOk, execOk)} :
            /\ call' = [op |-> "select_from_table_by_filter", table |-> table,
                        attribute |-> attribute, sort_by |-> sort_by,
                        sort_dir |-> sort_dir, complete_sort |-> complete_sort]
            /\ table_attributes' = r.d
            /\ ret' = r.val
            /\ sqlLog' = r.log
            /\ UNCHANGED <<session, connections, logins>>

\* a caller runs search_table_by_filter, as the data query of /tickets/searched
\* does for a text attribute: LIKE, one page from the first row on
SearchTableByFilter ==
    \E table \in FilterTables, attribute \in FilterAttributes,
       sort_by \in FilterSortBys, sort_dir \in FilterSortDirs,
       connOk \in BOOLEAN, execOk \in BOOLEAN :
        \E r \in {search_table_by_filter(table_attributes, table, attribute, "LIKE",
                      Str(<<"A", "n">>), IntVal(TICKETS_PER_PAGE), IntVal(0), sort_by,
                      sort_dir, FALSE, connOk, execOk)} :
            /\ call' = [op |-> "search_table_by_filter", table |-> table,
                        attribute |-> attribute, sort_by |-> sort_by,
                        sort_dir |-> sort_dir, complete_sort |-> TRUE]
            /\ table_attributes' = r.d
            /\ ret' = r.val
            /\ sqlLog' = r.log
            /\ UNCHANGED <<session, connections, logins>>

\* a caller validates the WHERE attribute of a filtered SELECT
ValidFilterAttribute == ValidTableAttributeOf(FilterTables, FilterAttributes)

NextFilter ==
    \/ ValidFilterAttribute
    \/ SelectFromTableByFilter
    \/ SearchTableByFilter

SpecFilter == Init /\ [][NextFilter]_vars

NextPage == NewPagination

----------------------------------------------------------------------------
(* Claims about the sort resolver, checked under Spec *)

\* the catalog of the table of the most recent call, as the cache holds it
Catalog ==
    IF Lower(call.table) \in DOMAIN table_attributes
    THEN table_attributes[Lower(call.table)]
    ELSE << >>

IsOrderBy == call.op = "complete_order_by"

SortByInCatalog == IsStr(call.sort_by) /\ InList(Lower(call.sort_by.v), Catalog)

SortDirValid == IsStr(call.sort_dir) /\ Lower(call.sort_dir.v) \in {S_asc, S_desc}

\* the place of column c in the catalog
Place(c) == CHOOSE p \in 1..Len(Catalog) : Catalog[p] = c

\* every key after the first is ascending, and these keys are in catalog order
RestAscendingInCatalogOrder(keys) ==
    /\ \A i \in 2..Len(keys) : keys[i].dir = T_ASC /\ InList(keys[i].col, Catalog)
    /\ \A i, j \in 2..Len(keys) : i < j => Place(keys[i].col) < Place(keys[j].col)

\* every catalog column is the column of exactly one key
EveryColumnOnce(keys) ==
    /\ Len(keys) = Len(Catalog)
    /\ \A p \in 1..Len(Catalog) :
           Cardinality({i \in 1..Len(keys) : keys[i].col = Catalog[p]}) = 1

\* C3: with a non-empty catalog and a valid requested sort (column c of the
\* catalog, direction asc or desc in any letter case) the ORDER BY starts with c
\* in the requested direction, goes on with every other catalog column
\* ascending in catalog order, and names every catalog column exactly once.
C3_SortTotalOrder ==
    (IsOrderBy /\ Len(Catalog) > 0 /\ SortByInCatalog /\ SortDirValid) =>
        /\ Len(ret.v) > 0
        /\ ret.v[1].col = Lower(call.sort_by.v)
        /\ ret.v[1].dir = (IF Lower(call.sort_dir.v) = S_asc THEN T_ASC ELSE T_DESC)
        /\ RestAscendingInCatalogOrder(ret.v)
        /\ EveryColumnOnce(ret.v)

\* Tickets sorted by Cl, DESC: cl DESC first, then id ASC and the other columns
C3_Witness ==
    /\ IsOrderBy /\ SortByInCatalog /\ SortDirValid
    /\ call.sort_by = Str(<<"C", "l">>) /\ call.sort_dir = Str(T_DESC)
    /\ Len(ret.v) = MaxCols
    /\ ret.v[1] = SortKey(C_cl, T_DESC)
    /\ ret.v[2] = SortKey(C_id, T_ASC)
    /\ ret.v[MaxCols].col = TicketsDescription[MaxCols]

\* the ordering of a request without a sort: every catalog column ascending,
\* in catalog order
DefaultOrder == [i \in 1..Len(Catalog) |-> SortKey(Catalog[i], T_ASC)]

\* C4: a sort by an attribute that is not in the catalog yields the ordering
\* of a request with no sort at all, which is the first catalog column
\* ascending followed by all the remaining catalog columns ascending.
C4_SortFallback ==
    (IsOrderBy /\ ~SortByInCatalog) => ret.v = DefaultOrder

\* Tickets sorted by a column followed by more SQL, with a valid direction
C4_Witness ==
    /\ IsOrderBy /\ ~SortByInCatalog
    /\ call.sort_by = Str(<<"c", "l", ";", "x">>) /\ call.sort_dir = Str(T_DESC)
    /\ Len(ret.v) = MaxCols
    /\ ret.v[1] = SortKey(C_id, T_ASC)

\* C5, as claimed: a direction that is neither asc nor desc makes the first
\* catalog attribute, ascending, the primary key, even if the requested column
\* is a valid attribute.
C5_InvalidDirFallsBackToFirst ==
    (IsOrderBy /\ Len(Catalog) > 0 /\ ~SortDirValid) =>
        ret.v[1] = SortKey(Catalog[1], T_ASC)

\* C5, amended: a direction that is neither asc nor desc is replaced by asc
\* alone: a valid requested column stays the primary key, lower-cased and
\* ascending; the first catalog attribute is the primary key only if the
\* requested column is not a valid attribute either.
C5_InvalidDirKeepsColumn ==
    (IsOrderBy /\ Len(Catalog) > 0 /\ ~SortDirValid) =>
        /\ ret.v[1].dir = T_ASC
        /\ ret.v[1].col = (IF SortByInCatalog THEN Lower(call.sort_by.v) ELSE Catalog[1])
        /\ RestAscendingInCatalogOrder(ret.v)
        /\ EveryColumnOnce(ret.v)

\* Tickets sorted by Cl in the direction up: cl ASC first, not id
C5_Witness ==
    /\ IsOrderBy /\ SortByInCatalog /\ ~SortDirValid
    /\ call.sort_by = Str(<<"C", "l">>) /\ call.sort_dir = Str(<<"u", "p">>)
    /\ Catalog[1] = C_id
    /\ ret.v[1] = SortKey(C_cl, T_ASC)

SpecPage == Init /\ [][NextPage]_vars

----------------------------------------------------------------------------
(* Claims about Pagination, checked under SpecPage *)

IsPagination == call.op = "Pagination"

\* C1: for every requested page, positive page size and total count >= 0 the
\* effective page satisfies 1 <= page <= max(1, pages); with a total of 0 the
\* effective page is 1.
C1_EffectivePageInRange ==
    IsPagination =>
        /\ 1 <= ret.page
        /\ ret.page <= Max(1, ret.pages)
        /\ (call.total_tickets = 0 => ret.page = 1)

\* C2: pages is the least n with n * page size >= total (the ceiling of
\* total / page size), has_prev and has_next compare the requested page with 1
\* and with pages, and with at least one page the effective page is the
\* requested page clamped into 1 .. pages.
C2_PageWindow ==
    IsPagination =>
        /\ ret.pages * call.tickets_per_page >= call.total_tickets
        /\ (ret.pages - 1) * call.tickets_per_page < call.total_tickets
        /\ ret.has_prev = (call.page_no > 1)
        /\ ret.has_next = (call.page_no < ret.pages)
        /\ (ret.pages >= 1 =>
               ret.page = IF call.page_no < 1 THEN 1
                          ELSE IF call.page_no > ret.pages THEN ret.pages
                          ELSE call.page_no)

\* a request far beyond the last page of a total that is no multiple of the
\* page size: 7 rows at size 3 are 3 pages, and page 9 is clamped to 3
C2_Witness ==
    /\ IsPagination
    /\ call.page_no = 9 /\ call.tickets_per_page = 3 /\ call.total_tickets = 7
    /\ ret.pages = 3 /\ ret.page = 3
    /\ ret.has_prev /\ ~ret.has_next

----------------------------------------------------------------------------
(* Claims about the attribute catalog, checked under Spec *)

IsGetAttributes == call.op = "get_table_attributes"

\* the dict d holds columns for the table key
CachedIn(d, key) == key \in DOMAIN d /\ Len(d[key]) > 0

\* the cache holds columns for the table key
Cached(key) == CachedIn(table_attributes, key)

\* the entries of a log that are probes of the table key, in any letter case
ProbesOf(log, key) ==
    {i \in 1..Len(log) : log[i].sql.kind = "probe" /\ Lower(log[i].sql.table) = key}

\* the columns of a table of the database, lower-cased
ColumnsOf(key) == [i \in 1..Len(DbTables[key]) |-> Lower(DbTables[key][i])]

\* C7: once a probe of a table has succeeded, the cache keeps that column
\* sequence, every later get_table_attributes call for the table, in any letter
\* case of its name, returns it, and no call probes the table again.
C7_CatalogIdempotent ==
    [][\A key \in DOMAIN table_attributes :
           Cached(key) =>
               /\ table_attributes'[key] = table_attributes[key]
               /\ ProbesOf(sqlLog', key) = {}
               /\ (IsGetAttributes' /\ Lower(call'.table) = key =>
                       ret'.v = table_attributes[key])]_vars

\* Tickets read under the name Tk from a cache that holds tk: no statement is
\* sent and the cached columns are returned
C7_Witness ==
    /\ IsGetAttributes
    /\ call.table = <<"T", "k">>
    /\ DOMAIN table_attributes = {T_tickets}
    /\ sqlLog = << >>
    /\ Len(ret.v) = MaxCols
    /\ ret.v = table_attributes[T_tickets]

\* C8: a get_table_attributes call that finds no columns cached probes the
\* table; if that probe fails (no such table, or no connection) the call
\* returns the empty list and the cache still holds no columns for the table;
\* if it succeeds, also after earlier failures, the call returns the table's
\* columns and the cache holds them.
C8_FailedProbeRetries ==
    [][(IsGetAttributes' /\ ~Cached(Lower(call'.table))) =>
           /\ Len(sqlLog') = 1
           /\ sqlLog'[1].sql = ProbeSql(call'.table)
           /\ IF sqlLog'[1].ok
              THEN /\ ret'.v = ColumnsOf(Lower(call'.table))
                   /\ table_attributes'[Lower(call'.table)] = ret'.v
              ELSE /\ ret'.v = << >>
                   /\ ~CachedIn(table_attributes', Lower(call'.table))]_vars

\* the probe of Tickets, a table of the database, failed: nothing is returned
\* and nothing is cached
C8_Witness ==
    /\ IsGetAttributes
    /\ call.table = T_tickets
    /\ Len(sqlLog) = 1 /\ ~sqlLog[1].ok
    /\ ret.v = << >>
    /\ table_attributes[T_tickets] = << >>

----------------------------------------------------------------------------
(* Claims about the filtered SELECT, checked under SpecFilter *)

IsFilteredSelect ==
    call.op \in {"select_from_table_by_filter", "search_table_by_filter"}

\* the filtered SELECT statements the most recent call sent
SelectsSent == {sqlLog[i].sql : i \in {j \in 1..Len(sqlLog) : sqlLog[j].sql.kind = "select"}}

AttributeInCatalog == InList(Lower(call.attribute), Catalog)

\* C6, as claimed: a filtered search with complete_sort whose requested sort
\* attribute is unknown or absent carries the default ORDER BY: the first
\* catalog column ascending, then all the remaining catalog columns.
C6_UnknownSortOrderedByDefault ==
    (IsFilteredSelect /\ call.complete_sort /\ ~SortByInCatalog) =>
        \A st \in SelectsSent : Len(st.order) > 0 /\ st.order = DefaultOrder

\* C6, amended: a filtered search with complete_sort whose requested sort
\* attribute is unknown or absent carries no ORDER BY clause at all; it carries
\* the complete ORDER BY (the requested column first, then every other catalog
\* column ascending, each column once) exactly when the requested sort
\* attribute is a catalog column.
C6_UnknownSortUnordered ==
    (IsFilteredSelect /\ call.complete_sort) =>
        \A st \in SelectsSent :
            IF SortByInCatalog
            THEN /\ st.order[1].col = Lower(call.sort_by.v)
                 /\ RestAscendingInCatalogOrder(st.order)
                 /\ EveryColumnOnce(st.order)
            ELSE st.order = << >>

\* a search of Tickets sorted by a column followed by more SQL: the SELECT is
\* executed and has no ORDER BY
C6_Witness ==
    /\ call.op = "search_table_by_filter"
    /\ call.sort_by = Str(<<"c", "l", ";", "x">>)
    /\ ~SortByInCatalog
    /\ ret.k = "rows"
    /\ \E st \in SelectsSent : st.order = << >> /\ st.limit = IntVal(TICKETS_PER_PAGE)

\* C9: for an attribute whose lower-cased form is not in the table's catalog,
\* valid_table_attribute returns false, and select_from_table_by_filter (and
\* search_table_by_filter) returns None without sending any filtered SELECT.
C9_UnknownAttributeRefused ==
    /\ (call.op = "valid_table_attribute" /\ ~AttributeInCatalog) => ret.v = FALSE
    /\ (IsFilteredSelect /\ ~AttributeInCatalog) => (ret.k = "none" /\ SelectsSent = {})

\* Tickets filtered by id;x with the catalog already cached: nothing at all is
\* sent to the database and the call returns None
C9_Witness ==
    /\ call.op = "select_from_table_by_filter"
    /\ call.attribute = <<"i", "d", ";", "x">>
    /\ Len(Catalog) = MaxCols
    /\ ret.k = "none"
    /\ sqlLog = << >>

\* C10: in every filtered SELECT sent, for either value of complete_sort, the
\* WHERE attribute and every sort column name a catalog column of the table
\* (in some letter case) and every sort direction is asc or desc (in some
\* letter case).
C10_OnlyValidatedFragments ==
    IsFilteredSelect =>
        \A st \in SelectsSent :
            /\ InList(Lower(st.where.name), Catalog)
            /\ \A i \in 1..Len(st.order) :
                   /\ InList(Lower(st.order[i].col), Catalog)
                   /\ Lower(st.order[i].dir) \in {S_asc, S_desc}

----------------------------------------------------------------------------
(* The filter value of the filtered SELECT and its inputs *)

\* filter values: text in mixed case, text that holds a wildcard of its own,
\* and a number
FilterVals == {Str(<<"A", "n">>), Str(<<"%", "B">>), Num(<<"4", "2">>)}

\* WHERE attributes: catalog columns in mixed and in lower case, and a column
\* of Users only
ValueAttributes == {<<"C", "l">>, C_id, <<"n", "m">>}

\* a caller runs select_from_table_by_filter on Tickets with one of the six
\* operators, a text or a numeric value, with or without no_lower
FilterByValue ==
    \E attribute \in ValueAttributes, filter_type \in Filters,
       filter_val \in FilterVals, no_lower \in BOOLEAN,
       connOk \in BOOLEAN, execOk \in BOOLEAN :
        \E r \in {select_from_table_by_filter(table_attributes, <<"*">>, <<"T", "k">>,
                      attribute, filter_type, filter_val, None, None, None,
                      None, TRUE, no_lower, connOk, execOk)} :
            /\ call' = [op |-> "select_from_table_by_filter", table |-> <<"T", "k">>,
                        attribute |-> attribute, filter_type |-> filter_type,
                        filter_val |-> filter_val, no_lower |-> no_lower]
            /\ table_attributes' = r.d
            /\ ret' = r.val
            /\ sqlLog' = r.log
            /\ UNCHANGED <<session, connections, logins>>

NextValue == FilterByValue

SpecValue == Init /\ [][NextValue]_vars

----------------------------------------------------------------------------
(* Claims about the filter value, checked under SpecValue *)

\* the text t with a % before and after it
Wildcarded(t) == <<"%">> \o t \o <<"%">>

\* C11: in every filtered SELECT sent, if the value is text and no_lower is
\* false then the WHERE attribute is wrapped in lower(), the bound value is the
\* lower-cased text, and it is wrapped in %...% exactly when the operator is
\* LIKE; if the value is no text or no_lower is true then the attribute and
\* the bound value are the caller's, unmodified, also for LIKE.
C11_FilterNormalization ==
    IsFilteredSelect =>
        \A st \in SelectsSent :
            /\ st.where.name = call.attribute
            /\ st.op = call.filter_type
            /\ Len(st.params) = 1
            /\ IF IsStr(call.filter_val) /\ ~call.no_lower
               THEN /\ st.where.fn = "lower"
                    /\ st.params[1].k = "str"
                    /\ IF call.filter_type = "LIKE"
                       THEN st.params[1].v = Wildcarded(Lower(call.filter_val.v))
                       ELSE st.params[1].v = Lower(call.filter_val.v)
               ELSE /\ st.where.fn = ""
                    /\ st.params[1] = call.filter_val

\* Cl LIKE "An" is sent as lower(Cl) LIKE %an% and is executed
C11_Witness ==
    /\ IsFilteredSelect
    /\ call.filter_type = "LIKE"
    /\ call.filter_val = Str(<<"A", "n">>)
    /\ ~call.no_lower
    /\ ret.k = "rows"
    /\ \E st \in SelectsSent :
           /\ st.where = [fn |-> "lower", name |-> <<"C", "l">>]
           /\ st.params = <<Str(<<"%", "a", "n", "%">>)>>

----------------------------------------------------------------------------
(* src/database.py: the ticket queries of the listing routes *)

\* the table name as the ticket functions write it: Tickets
Tickets == <<"T", "k">>

\* tickets_count, lines 77-88: the count of all tickets, None when the statement fails
tickets_count(total, countOk) == IF countOk THEN IntVal(total) ELSE None

\* the statement of tickets_count
CountSql == [kind |-> "count", table |-> Tickets]

\* list_tickets, lines 107-116: the statement, ordered is complete_order_by(...)
list_tickets_sql(ordered, page) ==
    [kind   |-> "list",
     table  |-> Tickets,
     order  |-> ordered.val,
     limit  |-> IntVal(TICKETS_PER_PAGE),
     offset |-> IntVal((page - 1) * TICKETS_PER_PAGE)]

\* list_tickets, lines 107-116: the statement is executed
list_tickets_run(ordered, page, execOk) ==
    [d   |-> ordered.d,
     val |-> QueryResult(execOk),
     log |-> ordered.log \o <<Sent(list_tickets_sql(ordered, page), execOk)>>]

\* database.list_tickets
database_list_tickets(d, page, sort_by, sort_dir, connOk, execOk) ==
    list_tickets_run(complete_order_by(d, Tickets, sort_by, sort_dir, connOk), page, execOk)

----------------------------------------------------------------------------
(* src/routes.py: the request, the login gate and the ticket listing routes *)

\* TICKET_FORM_ATTRIBUTES, lines 15-24: the names and their parsers, for the
\* abbreviated columns
TICKET_FORM_ATTRIBUTES ==
    <<[name |-> C_id, parser |-> "int"], [name |-> C_cl, parser |-> "str"],
      [name |-> C_pr, parser |-> "float"], [name |-> C_sn, parser |-> "str"]>>

TicketFormNames == {TICKET_FORM_ATTRIBUTES[i].name : i \in 1..Len(TICKET_FORM_ATTRIBUTES)}

\* request.args.get(name, default, type=str)
ArgStr(arg, default) == IF IsStr(arg) THEN arg.v ELSE default

\* request.args.get("page", 1, type=int)
ArgPage(arg) == IF arg.k = "int" THEN arg.n ELSE 1

\* line 90 with the direction always reset to asc
toggled_sort_Reset(sort_by, sort_dir, toggled) ==
    [by |-> toggled, dir |-> S_asc]

\* extract_ticket_sort, lines 87-95: toggled is the lower-cased name of a
\* ticket attribute
toggled_sort(sort_by, sort_dir, toggled) ==
    IF toggled = sort_by
    THEN [by |-> sort_by, dir |-> IF sort_dir = S_asc THEN S_desc ELSE S_asc]
    ELSE [by |-> toggled, dir |-> S_asc]

\* extract_ticket_sort, lines 79-95: args holds sort, direction and togglesort
extract_ticket_sort(args) ==
    IF ~IsStr(args.togglesort) \/ Lower(args.togglesort.v) \notin TicketFormNames
    THEN [by |-> Lower(ArgStr(args.sort, C_id)), dir |-> Lower(ArgStr(args.direction, S_asc))]
    ELSE toggled_sort(Lower(ArgStr(args.sort, C_id)), Lower(ArgStr(args.direction, S_asc)),
                      Lower(args.togglesort.v))

\* redirect(url_for(to, **args))
Redirect(to, args) == [k |-> "redirect", to |-> to, args |-> args]

\* render_template(template, ...): the tickets shown and the Pagination
Render(template, tickets, pagination) ==
    [k |-> "render", template |-> template, tickets |-> tickets, pagination |-> pagination]

NoArgs == [page |-> None]

\* require_login, lines 64-65: the response of a request that is not logged in
GateRedirect == Redirect("login", NoArgs)

\* line 64 letting every request through
require_login_Open(sess) == TRUE

\* require_login, line 64: the handler may run
require_login(sess) == sess.logged_in

\* the result of a handler: the catalog cache, the statements sent, the response
Handled(d, log, resp) == [d |-> d, log |-> log, resp |-> resp]

\* /tickets, lines 111-131: listed is database.list_tickets(page_no, ...)
tickets_listed(listed, countLog, page_no, total_tickets) ==
    Handled(listed.d, countLog \o listed.log,
            Render("list_tickets",
                   IF listed.val.k = "none" THEN << >> ELSE listed.val.v,
                   Pagination(page_no, TICKETS_PER_PAGE, total_tickets, DefaultMaxJump)))

\* /tickets, lines 101-131: sort is extract_ticket_sort()
tickets_sorted(d, page_no, sort, total, countOk, connOk, execOk) ==
    IF tickets_count(total, countOk).k = "none"
    THEN Handled(d, <<Sent(CountSql, FALSE)>>, Redirect("index", NoArgs))
    ELSE tickets_listed(database_list_tickets(d, page_no, Str(sort.by), Str(sort.dir),
                                              connOk, execOk),
                        <<Sent(CountSql, TRUE)>>, page_no, total)

\* /tickets behind require_login
route_list_tickets(d, sess, args, total, countOk, connOk, execOk) ==
    IF ~require_login(sess)
    THEN Handled(d, << >>, GateRedirect)
    ELSE tickets_sorted(d, ArgPage(args.page), extract_ticket_sort(args), total,
                        countOk, connOk, execOk)

\* the escapes of urllib.parse.unquote that the requests use: %63 is c, %25 is %
HexChar == (<<"6", "3">> :> "c") @@ (<<"2", "5">> :> "%")

\* urllib.parse.unquote: every %XX is replaced by its character, in one pass
RECURSIVE Unquote(_)
Unquote(s) ==
    IF Len(s) = 0
    THEN << >>
    ELSE IF s[1] = "%" /\ Len(s) >= 3 /\ <<s[2], s[3]>> \in DOMAIN HexChar
         THEN <<HexChar[<<s[2], s[3]>>]>> \o Unquote(SubSeq(s, 4, Len(s)))
         ELSE <<s[1]>> \o Unquote(Tail(s))

Digits == {"0", "1", "2", "3", "4", "5", "6", "7", "8", "9"}

\* lines 242-244: the parser of a ticket attribute
ParserOf(attribute) ==
    TICKET_FORM_ATTRIBUTES[CHOOSE i \in 1..Len(TICKET_FORM_ATTRIBUTES) :
                               TICKET_FORM_ATTRIBUTES[i].name = attribute].parser

\* lines 252-256, parser(search): int and float raise ValueError on text that
\* is no number
Parse(parser, search) ==
    IF parser = "str"
    THEN [ok |-> TRUE, val |-> Str(search)]
    ELSE IF Len(search) > 0 /\ \A i \in 1..Len(search) : search[i] \in Digits
         THEN [ok |-> TRUE, val |-> Num(search)]
         ELSE [ok |-> FALSE, val |-> None]

\* the bookingdate column, abbreviated
C_bd == <<"b", "d">>

\* lines 258-261: search_filter
SearchFilter(parsed_search, attribute) ==
    IF IsStr(parsed_search) /\ attribute # C_bd THEN "LIKE" ELSE "="

\* lines 294-303 redirecting to the page after the effective one
PageRedirect_NextPage(pagination, attribute, search, sort) ==
    Redirect("search_tickets_result",
             [page |-> IntVal(pagination.page + 1), attribute |-> Str(attribute),
              search |-> Str(search), sort |-> Str(sort.by), direction |-> Str(sort.dir)])

\* lines 294-303: the redirect to the effective page
PageRedirect(pagination, attribute, search, sort) ==
    Redirect("search_tickets_result",
             [page |-> IntVal(pagination.page), attribute |-> Str(attribute),
              search |-> Str(search), sort |-> Str(sort.by), direction |-> Str(sort.dir)])

\* /tickets/searched, lines 329-331 and the rendering: data is the result of
\* search_table_by_filter
searched_data(data, countLog, pagination) ==
    IF data.val.k = "none"
    THEN Handled(data.d, countLog \o data.log, Redirect("index", NoArgs))
    ELSE Handled(data.d, countLog \o data.log,
                 Render("list_tickets", data.val.v, pagination))

\* /tickets/searched, lines 292-327: the Pagination and the sort are in hand
searched_paged(counted, attribute, search, parsed_search, page_no, pagination, sort, connOk, dataOk) ==
    IF page_no # pagination.page
    THEN Handled(counted.d, counted.log, PageRedirect(pagination, attribute, search, sort))
    ELSE searched_data(
             search_table_by_filter(counted.d, Tickets, attribute,
                 SearchFilter(parsed_search, attribute), parsed_search,
                 IntVal(TICKETS_PER_PAGE),
                 IntVal((pagination.page - 1) * TICKETS_PER_PAGE),
                 Str(sort.by), Str(sort.dir), FALSE, connOk, dataOk),
             counted.log, pagination)

\* /tickets/searched, lines 272-292: counted is the result of the count
\* query, matching the count it reports
searched_counted(counted, attribute, search, parsed_search, args, matching, connOk, dataOk) ==
    IF counted.val.k = "none"
    THEN Handled(counted.d, counted.log, Redirect("index", NoArgs))
    ELSE IF matching = 0
         THEN Handled(counted.d, counted.log, Redirect("index", NoArgs))
         ELSE searched_paged(counted, attribute, search, parsed_search,
                  ArgPage(args.page),
                  Pagination(ArgPage(args.page), TICKETS_PER_PAGE, matching, DefaultMaxJump),
                  extract_ticket_sort(args), connOk, dataOk)

\* /tickets/searched, lines 254-270: parsed is parser(search)
searched_parsed(d, attribute, search, parsed, args, matching, connOk, countOk, dataOk) ==
    IF ~parsed.ok
    THEN Handled(d, << >>, Redirect("search_tickets", NoArgs))
    ELSE searched_counted(
             select_from_table_by_filter(d, CountTickets, Tickets, attribute,
                 SearchFilter(parsed.val, attribute), parsed.val, None, None,
                 None, None, TRUE, attribute = C_bd, connOk, countOk),
             attribute, search, parsed.val, args, matching, connOk, dataOk)

\* /tickets/searched, lines 241-252: attribute is the unquoted attribute
searched_attribute(d, attribute, search, args, matching, connOk, countOk, dataOk) ==
    IF attribute \notin TicketFormNames
    THEN Handled(d, << >>, Redirect("search_tickets", NoArgs))
    ELSE searched_parsed(d, attribute, search, Parse(ParserOf(attribute), search),
                         args, matching, connOk, countOk, dataOk)

\* /tickets/searched behind require_login
route_search_tickets_result(d, sess, args, matching, connOk, countOk, dataOk) ==
    IF ~require_login(sess)
    THEN Handled(d, << >>, GateRedirect)
    ELSE searched_attribute(d, Unquote(ArgStr(args.attribute, << >>)),
                            Unquote(ArgStr(args.search, << >>)), args, matching,
                            connOk, countOk, dataOk)

\* the statement of check_login
LoginSql == [kind |-> "login", table |-> T_users]

\* /login, lines 912-933: login_response is the result of check_login
route_login(sess, method, login_response) ==
    IF method = "GET"
    THEN [session |-> sess, log |-> << >>,
          resp |-> IF sess.logged_in THEN Redirect("index", NoArgs)
                   ELSE Render("index", << >>, None)]
    ELSE IF login_response.k = "none"
         THEN [session |-> sess, log |-> <<Sent(LoginSql, FALSE)>>,
               resp |-> Redirect("login", NoArgs)]
         ELSE IF Len(login_response.v) = 0
              THEN [session |-> sess, log |-> <<Sent(LoginSql, TRUE)>>,
                    resp |-> Redirect("login", NoArgs)]
              ELSE [session |-> [name      |-> Str(login_response.v[1].firstname),
                                 userid    |-> Str(login_response.v[1].userid),
                                 logged_in |-> TRUE,
                                 isadmin   |-> login_response.v[1].isadmin],
                    log     |-> <<Sent(LoginSql, TRUE)>>,
                    resp    |-> Redirect("index", NoArgs)]

\* /logout, lines 936-939
route_logout(sess) ==
    [session |-> [sess EXCEPT !.logged_in = FALSE], log |-> << >>,
     resp |-> Redirect("index", NoArgs)]

\* /, lines 884-894, behind require_login
route_index(sess) ==
    IF ~require_login(sess) THEN GateRedirect ELSE Render("welcome", << >>, None)

----------------------------------------------------------------------------
(* The requests and the routes *)

\* the arguments of a request: each one absent (None) or present
Args(page, attribute, search, sort, direction, togglesort) ==
    [page |-> page, attribute |-> attribute, search |-> search, sort |-> sort,
     direction |-> direction, togglesort |-> togglesort]

\* how the database answers during one request: whether the catalog probe,
\* the count query and the data query succeed
DbOutcome(connOk, countOk, dataOk) ==
    [connOk |-> connOk, countOk |-> countOk, dataOk |-> dataOk]

\* the database answers; is down; fails the count query; fails the data query
DbOutcomes ==
    {DbOutcome(TRUE, TRUE, TRUE), DbOutcome(FALSE, FALSE, FALSE),
     DbOutcome(TRUE, FALSE, TRUE), DbOutcome(TRUE, TRUE, FALSE)}

\* the page argument: absent, negative, zero, and pages within and beyond the
\* three pages of 120 rows
RoutePages == {None, IntVal(0 - 1), IntVal(0), IntVal(3), IntVal(4)}

\* the number of tickets, or of matching tickets: none, two pages, three pages
RouteTotals == {0, 51, 120}

\* the sort arguments: absent; ticketid ascending toggled on ticketid;
\* ticketid descending
RouteSorts ==
    {<<None, None, None>>, <<Str(C_id), Str(S_asc), Str(C_id)>>,
     <<Str(C_id), Str(S_desc), None>>}

\* requests of /tickets
TicketsRequests ==
    {[args |-> Args(pg, None, None, None, None, None), total |-> total, db |-> db] :
        pg \in RoutePages, total \in RouteTotals, db \in DbOutcomes}
    \cup {[args |-> Args(None, None, None, st[1], st[2], st[3]), total |-> 120,
           db |-> DbOutcome(TRUE, TRUE, TRUE)] : st \in RouteSorts}

\* requests of /tickets/searched: a text search of class on every page; a
\* numeric search of ticketid; ticketid searched with text; class written with
\* an escape; an attribute that is none
SearchedRequests ==
    {[args |-> Args(pg, Str(C_cl), Str(<<"a">>), st[1], st[2], st[3]),
      total |-> total, db |-> db] :
        pg \in RoutePages \ {IntVal(0 - 1)}, st \in RouteSorts,
        total \in {0, 120}, db \in DbOutcomes \ {DbOutcome(TRUE, FALSE, TRUE)}}
    \cup {[args |-> Args(None, Str(at), Str(se), None, None, None),
           total |-> total, db |-> DbOutcome(TRUE, TRUE, TRUE)] :
            at \in {C_id}, se \in {<<"7">>, <<"a">>}, total \in {0, 51}}
    \cup {[args |-> Args(IntVal(3), Str(at), Str(<<"a">>), None, None, None),
           total |-> 51, db |-> DbOutcome(TRUE, TRUE, TRUE)] :
            at \in {<<"%", "6", "3", "l">>, <<"z">>}}

\* the rows check_login may return: failure, no such user, an admin, a user
\* who is no admin
LoginResponses ==
    {None,
     [k |-> "rows", v |-> << >>],
     [k |-> "rows", v |-> <<[firstname |-> <<"A">>, userid |-> <<"a">>, isadmin |-> TRUE]>>],
     [k |-> "rows", v |-> <<[firstname |-> <<"U">>, userid |-> <<"u">>, isadmin |-> FALSE]>>]}

NoRequestArgs == Args(None, None, None, None, None, None)

\* a client requests /tickets
ListTicketsRoute ==
    \E req \in TicketsRequests :
        \E r \in {route_list_tickets(table_attributes, session, req.args, req.total,
                      req.db.countOk, req.db.connOk, req.db.dataOk)} :
            /\ call' = [op |-> "/tickets", args |-> req.args, total |-> req.total,
                        db |-> req.db]
            /\ table_attributes' = r.d
            /\ ret' = r.resp
            /\ sqlLog' = r.log
            /\ UNCHANGED <<session, connections, logins>>

\* a client requests /tickets/searched
SearchTicketsResultRoute ==
    \E req \in SearchedRequests :
        \E r \in {route_search_tickets_result(table_attributes, session, req.args,
                      req.total, req.db.connOk, req.db.countOk, req.db.dataOk)} :
            /\ call' = [op |-> "/tickets/searched", args |-> req.args,
                        total |-> req.total, db |-> req.db]
            /\ table_attributes' = r.d
            /\ ret' = r.resp
            /\ sqlLog' = r.log
            /\ UNCHANGED <<session, connections, logins>>

\* a client requests /
IndexRoute ==
    /\ call' = [op |-> "/", args |-> NoRequestArgs, total |-> 0,
                db |-> DbOutcome(TRUE, TRUE, TRUE)]
    /\ ret' = route_index(session)
    /\ sqlLog' = << >>
    /\ UNCHANGED <<table_attributes, session, connections, logins>>

\* a client requests /login, with GET or by posting the form
LoginRoute ==
    \E method \in {"GET", "POST"}, login_response \in LoginResponses :
        \E r \in {route_login(session, method, login_response)} :
            /\ method = "GET" => login_response = None
            /\ call' = [op |-> "/login", args |-> NoRequestArgs, total |-> 0,
                        db |-> DbOutcome(login_response.k # "none", TRUE, TRUE),
                        method |-> method, login_response |-> login_response]
            /\ session' = r.session
            /\ ret' = r.resp
            /\ sqlLog' = r.log
            /\ UNCHANGED <<table_attributes, connections, logins>>

\* a client requests /logout
LogoutRoute ==
    \E r \in {route_logout(session)} :
        /\ call' = [op |-> "/logout", args |-> NoRequestArgs, total |-> 0,
                    db |-> DbOutcome(TRUE, TRUE, TRUE)]
        /\ session' = r.session
        /\ ret' = r.resp
        /\ sqlLog' = r.log
        /\ UNCHANGED <<table_attributes, connections, logins>>

NextRoutes ==
    \/ LoginRoute
    \/ LogoutRoute
    \/ IndexRoute
    \/ ListTicketsRoute
    \/ SearchTicketsResultRoute

SpecRoutes == Init /\ [][NextRoutes]_vars

----------------------------------------------------------------------------
(* Claims about the routes, checked under SpecRoutes *)

IsListingRoute == call.op \in {"/tickets", "/tickets/searched"}

\* the paginated data queries the most recent request sent
PagedQueries ==
    {sqlLog[i].sql : i \in {j \in 1..Len(sqlLog) :
                               /\ sqlLog[j].sql.kind \in {"list", "select"}
                               /\ sqlLog[j].sql.limit # None}}

\* the effective page of the most recent request: the page of the Pagination
\* built from its page argument and the count the database reported
EffectivePage ==
    Pagination(ArgPage(call.args.page), TICKETS_PER_PAGE, call.total, DefaultMaxJump).page

\* C12: every paginated data query of /tickets and /tickets/searched has
\* LIMIT = the page size and OFFSET = (effective page - 1) * page size, and
\* its OFFSET is never negative.
C12_OffsetOfEffectivePage ==
    IsListingRoute =>
        \A st \in PagedQueries :
            /\ st.limit = IntVal(TICKETS_PER_PAGE)
            /\ st.offset.k = "int"
            /\ st.offset.n >= 0
            /\ st.offset.n = (EffectivePage - 1) * TICKETS_PER_PAGE

----------------------------------------------------------------------------
(* src/database.py: the query executor.  o is what the database does when    *)
(* asked: whether connecting, executing, fetching and committing succeed,    *)
(* whether the statement has a result set (cursor.description), and how many *)
(* rows it yields.                                                           *)

\* the rows of a result set, as the list of dicts the fetchers build
RowDicts(n) == [k |-> "rows", v |-> [i \in 1..n |-> [id |-> i]]]

\* lines 597-612 with no rows reported as None
dict_fetchall_NoneWhenEmpty(o) ==
    IF ~o.description \/ (o.fetch /\ o.rows = 0)
    THEN [raised |-> FALSE, val |-> None, steps |-> << >>]
    ELSE IF ~o.fetch
         THEN [raised |-> TRUE, val |-> None, steps |-> <<"fetch">>]
         ELSE [raised |-> FALSE, val |-> RowDicts(o.rows), steps |-> <<"fetch">>]

\* dict_fetchall, lines 597-612
dict_fetchall(o) ==
    IF ~o.description
    THEN [raised |-> FALSE, val |-> None, steps |-> << >>]
    ELSE IF ~o.fetch
         THEN [raised |-> TRUE, val |-> None, steps |-> <<"fetch">>]
         ELSE [raised |-> FALSE, val |-> RowDicts(o.rows), steps |-> <<"fetch">>]

\* dict_fetchone, lines 623-637
dict_fetchone(o) ==
    IF ~o.description
    THEN [raised |-> FALSE, val |-> RowDicts(0), steps |-> << >>]
    ELSE IF ~o.fetch
         THEN [raised |-> TRUE, val |-> None, steps |-> <<"fetch">>]
         ELSE [raised |-> FALSE, val |-> RowDicts(Min(o.rows, 1)), steps |-> <<"fetch">>]

\* the fetcher of fetch_table_attributes, line 321: lambda c: c.description
fetch_description(o) ==
    [raised |-> FALSE,
     val    |-> IF o.description THEN [k |-> "desc", v |-> TicketsDescription] ELSE None,
     steps  |-> << >>]

\* the fetcher of get_tickets_classes, line 97: [r[0] for r in c.fetchall()]
fetch_column(o) ==
    IF ~o.description \/ ~o.fetch
    THEN [raised |-> TRUE, val |-> None, steps |-> <<"fetch">>]
    ELSE [raised |-> FALSE, val |-> RowDicts(o.rows), steps |-> <<"fetch">>]

\* line 657: sql_res = fetcher(cursor)
Fetch(fetcher, o) ==
    CASE fetcher = "dict_fetchall" -> dict_fetchall(o)
      [] fetcher = "dict_fetchone" -> dict_fetchone(o)
      [] fetcher = "description"   -> fetch_description(o)
      [] fetcher = "column"        -> fetch_column(o)

\* lines 660-661: the commit, the last statement of the try block
try_commit(fetched, commit, o) ==
    [val       |-> fetched.val,
     steps     |-> <<"execute">> \o fetched.steps
                   \o (IF commit THEN <<"commit">> ELSE << >>),
     committed |-> commit /\ o.commit]

\* lines 657-661: fetched is fetcher(cursor); print(sql_res[:5]) raises when
\* sql_res is None
try_fetched(fetched, commit, o) ==
    IF fetched.raised \/ fetched.val.k = "none"
    THEN [val |-> None, steps |-> <<"execute">> \o fetched.steps, committed |-> FALSE]
    ELSE try_commit(fetched, commit, o)

\* lines 655-666: the try block, every exception caught
try_block(fetcher, commit, o) ==
    IF ~o.execute
    THEN [val |-> None, steps |-> <<"execute">>, committed |-> FALSE]
    ELSE try_fetched(Fetch(fetcher, o), commit, o)

\* lines 668-670 left out when the try block returned no result
close_and_return_LeakOnError(tried) ==
    [val       |-> tried.val,
     steps     |-> <<"connect", "cursor", "print">> \o tried.steps
                   \o (IF tried.val.k = "none" THEN << >>
                       ELSE <<"cursor.close", "conn.close">>),
     committed |-> tried.committed,
     opened    |-> 1,
     closed    |-> IF tried.val.k = "none" THEN 0 ELSE 1,
     raised    |-> FALSE]

\* lines 668-670: cursor.close(), conn.close(), return sql_res
close_and_return(tried) ==
    [val       |-> tried.val,
     steps     |-> <<"connect", "cursor", "print">> \o tried.steps
                   \o <<"cursor.close", "conn.close">>,
     committed |-> tried.committed,
     opened    |-> 1,
     closed    |-> 1,
     raised    |-> FALSE]

\* print_sql_string, line 683: str.format raises IndexError when the text has
\* more %s than there are params
print_sql_string_raises(placeholders, params) == placeholders > params

\* execute_and_fetch; placeholders is the number of %s in sql, params the
\* number of parameters
execute_and_fetch(fetcher, placeholders, params, commit, o) ==
    IF ~o.connect
    THEN [val |-> None, steps |-> <<"connect">>, committed |-> FALSE,
          opened |-> 0, closed |-> 0, raised |-> FALSE]
    ELSE IF print_sql_string_raises(placeholders, params)
         THEN [val |-> None, steps |-> <<"connect", "cursor", "print">>,
               committed |-> FALSE, opened |-> 1, closed |-> 0, raised |-> TRUE]
         ELSE close_and_return(try_block(fetcher, commit, o))

----------------------------------------------------------------------------
(* The calls of the query executor *)

MaxRows == 2

\* what the database may do during one call
ExecOutcomes ==
    [connect : BOOLEAN, execute : BOOLEAN, description : BOOLEAN,
     fetch : BOOLEAN, commit : BOOLEAN, rows : 0..MaxRows]

ExecCall(name, fetcher, placeholders, params, commit) ==
    [name |-> name, fetcher |-> fetcher, placeholders |-> placeholders,
     params |-> params, commit |-> commit]

\* the calls the functions of database.py make
ExecCalls ==
    {ExecCall("list_tickets", "dict_fetchall", 0, 0, FALSE),
     ExecCall("select_from_table_by_filter", "dict_fetchall", 1, 1, FALSE),
     ExecCall("check_login", "dict_fetchone", 2, 2, FALSE),
     ExecCall("get_tickets_classes", "column", 0, 0, FALSE),
     ExecCall("fetch_table_attributes", "description", 0, 0, FALSE),
     ExecCall("delete_ticket", "dict_fetchone", 1, 1, TRUE)}

\* a function of database.py runs a statement through execute_and_fetch
ExecuteAndFetch ==
    \E c \in ExecCalls, o \in ExecOutcomes :
        \E r \in {execute_and_fetch(c.fetcher, c.placeholders, c.params, c.commit, o)} :
            /\ call' = [op |-> "execute_and_fetch", name |-> c.name,
                        fetcher |-> c.fetcher, commit |-> c.commit, o |-> o]
            /\ ret' = r.val
            /\ sqlLog' = r.steps
            /\ connections' = connections + r.opened - r.closed
            /\ UNCHANGED <<table_attributes, session, logins>>

NextExec == ExecuteAndFetch

SpecExec == Init /\ [][NextExec]_vars

----------------------------------------------------------------------------
(* Claims about the query executor, checked under SpecExec *)

IsExec == call.op = "execute_and_fetch"

\* the fetcher asks the cursor for rows
FetchesRows ==
    \/ call.fetcher = "column"
    \/ call.fetcher \in {"dict_fetchall", "dict_fetchone"} /\ call.o.description

\* the step of the call that fails, if any: connecting, executing, fetching
\* or committing
ConnectFailed == ~call.o.connect

ExecuteFailed == call.o.connect /\ ~call.o.execute

FetchFailed == call.o.connect /\ call.o.execute /\ FetchesRows /\ ~call.o.fetch

CommitFailed ==
    /\ call.o.connect /\ call.o.execute /\ ~FetchFailed
    /\ call.commit /\ ~call.o.commit

\* C13: a call in which connecting, executing, fetching or committing fails
\* returns None.
C13_FailureReturnsNone ==
    (IsExec /\ (ConnectFailed \/ ExecuteFailed \/ FetchFailed \/ CommitFailed)) =>
        ret = None

\* C14: a read run with dict_fetchall that succeeds and matches no row returns
\* the empty list, and it returns None only when connecting to the database or
\* executing the read (the statement or the fetch of its rows) failed.
C14_EmptyIsNotFailure ==
    (IsExec /\ call.fetcher = "dict_fetchall" /\ call.o.description) =>
        /\ (~ConnectFailed /\ ~ExecuteFailed /\ ~FetchFailed /\ call.o.rows = 0)
               => ret = [k |-> "rows", v |-> << >>]
        /\ ret = None <=> (ConnectFailed \/ ExecuteFailed \/ FetchFailed)

\* a filtered SELECT that is executed and matches no row returns the empty list
C14_Witness ==
    /\ IsExec
    /\ call.name = "select_from_table_by_filter"
    /\ call.o.connect /\ call.o.execute /\ call.o.description /\ call.o.fetch
    /\ call.o.rows = 0
    /\ ret = [k |-> "rows", v |-> << >>]

\* the last two steps of the call closed the cursor and then the connection
ClosedBoth ==
    /\ Len(sqlLog) >= 2
    /\ sqlLog[Len(sqlLog) - 1] = "cursor.close"
    /\ sqlLog[Len(sqlLog)] = "conn.close"

\* C15: a call that obtained a connection closed its cursor and its connection
\* before it returned, whether it succeeded or failed at executing, fetching
\* or committing, and no connection of any earlier call is open.
C15_ConnectionsClosed ==
    IsExec =>
        /\ call.o.connect => ClosedBoth
        /\ connections = 0

\* delete_ticket whose commit failed: the connection was opened, the commit
\* was tried, cursor and connection are closed
C15_Witness ==
    /\ IsExec
    /\ call.name = "delete_ticket"
    /\ CommitFailed
    /\ \E i \in 1..Len(sqlLog) : sqlLog[i] = "commit"
    /\ sqlLog[1] = "connect"
    /\ ClosedBoth
    /\ connections = 0

----------------------------------------------------------------------------
(* Two requests in get_table_attributes at once.  Under this specification   *)
(* call and ret are functions of the thread: call[t] holds the position of   *)
(* the thread in get_table_attributes / fetch_table_attributes and its       *)
(* locals, ret[t] what its call returned.  Each step is one access of the    *)
(* shared dict or one statement sent to the database.                        *)

Threads == {1, 2}

\* the most probes the log may hold
MaxProbes == 4

\* the name of the table as the two callers write it
RaceTables == {Tickets, T_tickets}

Idle == [pc |-> "idle", table |-> << >>, description |-> None]

InitRace ==
    /\ table_attributes = << >>
    /\ call = [t \in Threads |-> Idle]
    /\ ret = [t \in Threads |-> None]
    /\ sqlLog = << >>
    /\ session = NewSession
    /\ connections = 0
    /\ logins = NoLogins

\* line 307: len(table_attributes[table]) == 0, first is table_attributes[table]
needs_fetch(first) == Len(first.val) = 0

\* line 310 returning an empty list for a table the call did not probe
return_cached_Empty(d, table, description) ==
    IF description.k = "none"
    THEN [d |-> DictGetItem(d, table).d, val |-> << >>]
    ELSE DictGetItem(d, table)

\* line 310: return table_attributes[table]
return_cached(d, table, description) == DictGetItem(d, table)

\* a thread calls get_table_attributes(table)
RaceCall(t) ==
    /\ call[t].pc \in {"idle", "done"}
    /\ Len(sqlLog) + Cardinality({u \in Threads : call[u].pc \in {"check", "probe"}})
           < MaxProbes
    /\ \E table \in RaceTables :
           call' = [call EXCEPT ![t] = [pc |-> "check", table |-> table,
                                        description |-> None]]
    /\ ret' = [ret EXCEPT ![t] = None]
    /\ UNCHANGED <<table_attributes, sqlLog, session, connections, logins>>

\* line 307: the thread reads the cache, which inserts an empty list on a miss
RaceCheck(t) ==
    /\ call[t].pc = "check"
    /\ \E first \in {DictGetItem(table_attributes, call[t].table)} :
           /\ table_attributes' = first.d
           /\ call' = [call EXCEPT ![t].pc =
                           IF needs_fetch(first) THEN "probe" ELSE "return"]
    /\ UNCHANGED <<ret, sqlLog, session, connections, logins>>

\* line 321: the thread sends the probe and holds its description
RaceProbe(t) ==
    /\ call[t].pc = "probe"
    /\ \E connOk \in BOOLEAN :
           \E description \in {ProbeDescription(call[t].table, connOk)} :
               /\ call' = [call EXCEPT ![t].pc = "store",
                                       ![t].description = description]
               /\ sqlLog' = Append(sqlLog, Sent(ProbeSql(call[t].table),
                                                description.k # "none"))
    /\ UNCHANGED <<table_attributes, ret, session, connections, logins>>

\* lines 323-328: the thread stores the columns, or returns False
RaceStore(t) ==
    /\ call[t].pc = "store"
    /\ table_attributes' =
           store_description(table_attributes, call[t].table, call[t].description).d
    /\ call' = [call EXCEPT ![t].pc = "return"]
    /\ UNCHANGED <<ret, sqlLog, session, connections, logins>>

\* line 310: the thread reads the cache again and returns what it holds
RaceReturn(t) ==
    /\ call[t].pc = "return"
    /\ \E r \in {return_cached(table_attributes, call[t].table, call[t].description)} :
           /\ table_attributes' = r.d
           /\ ret' = [ret EXCEPT ![t] = [k |-> "attrs", v |-> r.val]]
    /\ call' = [call EXCEPT ![t].pc = "done"]
    /\ UNCHANGED <<sqlLog, session, connections, logins>>

NextRace ==
    \E t \in Threads :
        \/ RaceCall(t)
        \/ RaceCheck(t)
        \/ RaceProbe(t)
        \/ RaceStore(t)
        \/ RaceReturn(t)

SpecRace == InitRace /\ [][NextRace]_vars

----------------------------------------------------------------------------
(* Claims about concurrent catalog reads, checked under SpecRace *)

AllProbesSucceeded == \A i \in 1..Len(sqlLog) : sqlLog[i].ok

ThreadsDone == {t \in Threads : call[t].pc = "done"}

----------------------------------------------------------------------------
(* The database answering the paginated queries.  Tickets holds the rows     *)
(* 1..n; row i has ticketid i, class B when 8 divides i and A otherwise,     *)
(* price i mod 3 and the same seat number as every other row.  Rows that an  *)
(* ORDER BY leaves tied come in the order the database happens to scan them: *)
(* by ascending or by descending ticketid, chosen anew for every query.      *)

\* the most rows Tickets holds
MaxTickets == 60

ClassText(i) == IF i % 8 = 0 THEN <<"B">> ELSE <<"A">>

\* the value of a column of row i, as a number that sorts like the value
RowValue(i, col) ==
    CASE col = C_id -> i
      [] col = C_cl -> IF ClassText(i) = <<"A">> THEN 0 ELSE 1
      [] col = C_pr -> i % 3
      [] OTHER      -> 0

\* the WHERE clause of a filtered SELECT on class: lower(class) LIKE %x%
Matches(i, st) ==
    /\ st.op = "LIKE"
    /\ Lower(st.where.name) = C_cl
    /\ st.params[1].v
           = <<"%">> \o (IF st.where.fn = "lower" THEN Lower(ClassText(i))
                         ELSE ClassText(i)) \o <<"%">>

\* the rows a statement selects from
RowsOf(st, n) ==
    IF st.kind = "select" THEN {i \in 1..n : Matches(i, st)} ELSE 1..n

\* the sort key of row i under an ORDER BY list: one number per item, negated
\* for DESC, so that keys compare ascending
OrderKey(i, order) ==
    [k \in 1..Len(order) |->
        IF Upper(order[k].dir) = T_DESC
        THEN 0 - RowValue(i, Lower(order[k].col))
        ELSE RowValue(i, Lower(order[k].col))]

\* key a sorts before key b
KeyLess(a, b) ==
    \E k \in 1..Len(a) : a[k] < b[k] /\ \A m \in 1..(k - 1) : a[m] = b[m]

\* the position of every row in the result: by the ORDER BY keys, tied rows
\* in scan order
Positions(rows, keys, scan) ==
    [i \in rows |->
        1 + Cardinality({j \in rows :
                \/ KeyLess(keys[j], keys[i])
                \/ keys[j] = keys[i] /\ (IF scan = "asc" THEN j < i ELSE j > i)})]

\* the rows at positions offset+1 .. offset+limit
Window(rows, positions, offset, limit) ==
    [k \in 1..Max(0, Min(limit, Cardinality(rows) - offset)) |->
        CHOOSE i \in rows : positions[i] = offset + k]

\* the one element of a set of one element
Only(S) == CHOOSE x \in S : TRUE

\* the rows of the result, the rows selected from and their keys in hand
Answer(rows, keys, scan, offset, limit) ==
    Only({Window(rows, positions, offset, limit) :
              positions \in {Positions(rows, keys, scan)}})

\* the result of a statement with LIMIT and OFFSET on a table of n rows;
\* PostgreSQL rejects a negative OFFSET
RunQuery(st, n, scan) ==
    IF st.offset.n < 0
    THEN None
    ELSE [k |-> "rows",
          v |-> Only({Answer(rows, Only({[i \in rows |-> OrderKey(i, order)] :
                                            order \in {st.order}}),
                             scan, st.offset.n, st.limit.n) :
                          rows \in {RowsOf(st, n)}})]

\* the last statement of a log
LastSent(log) == log[Len(log)].sql

----------------------------------------------------------------------------
(* The pages of a listing.  A client opens a listing of a table of n rows    *)
(* with a sort and then requests its pages one after the other; call holds   *)
(* the listing and the last page requested, ret the rows of every page so    *)
(* far.                                                                      *)

\* the number of rows of Tickets: one page and a row, and the most
RowTotals == {TICKETS_PER_PAGE + 1, MaxTickets}

\* valid sorts: class, price and ticketid, in two letter cases
ListSortBys == {Str(<<"C", "l">>), Str(C_pr), Str(C_id)}

ListSortDirs == {Str(S_asc), Str(T_DESC)}

Scans == {"asc", "desc"}

\* the rows the listing is about: all tickets, or those of class A
ListedRows ==
    IF call.op = "list_tickets" THEN 1..call.n
    ELSE {i \in 1..call.n : ClassText(i) = <<"A">>}

\* the pages the routes compute for the listing
TotalPages == Ceil(Cardinality(ListedRows), TICKETS_PER_PAGE)

\* a client opens /tickets or a search of class a, with a sort
OpenListing ==
    \E op \in {"list_tickets", "search_table_by_filter"}, n \in RowTotals,
       sort_by \in ListSortBys, sort_dir \in ListSortDirs :
        /\ call' = [op |-> op, n |-> n, sort_by |-> sort_by, sort_dir |-> sort_dir,
                    page |-> 0, scan |-> "none"]
        /\ ret' = [k |-> "pages", v |-> << >>]
        /\ sqlLog' = << >>
        /\ UNCHANGED <<table_attributes, session, connections, logins>>

\* database.list_tickets(page, sort_by, sort_dir) for the next page, answered
\* by the database
ListTicketsPage ==
    /\ call.op = "list_tickets"
    /\ call.page < TotalPages
    /\ \E scan \in Scans :
           \E r \in {database_list_tickets(table_attributes, call.page + 1,
                         call.sort_by, call.sort_dir, TRUE, TRUE)} :
               /\ call' = [call EXCEPT !.page = call.page + 1, !.scan = scan]
               /\ table_attributes' = r.d
               /\ ret' = [ret EXCEPT !.v = Append(ret.v,
                                               RunQuery(LastSent(r.log), call.n, scan))]
               /\ sqlLog' = r.log
    /\ UNCHANGED <<session, connections, logins>>

\* the data query of /tickets/searched, routes.py:318-327, for the next page
\* of the search class LIKE a, answered by the database
SearchTicketsPage ==
    /\ call.op = "search_table_by_filter"
    /\ call.page < TotalPages
    /\ \E scan \in Scans :
           \E r \in {search_table_by_filter(table_attributes, Tickets, C_cl, "LIKE",
                         Str(<<"a">>), IntVal(TICKETS_PER_PAGE),
                         IntVal(call.page * TICKETS_PER_PAGE), call.sort_by,
                         call.sort_dir, FALSE, TRUE, TRUE)} :
               /\ call' = [call EXCEPT !.page = call.page + 1, !.scan = scan]
               /\ table_attributes' = r.d
               /\ ret' = [ret EXCEPT !.v = Append(ret.v,
                                               RunQuery(LastSent(r.log), call.n, scan))]
               /\ sqlLog' = r.log
    /\ UNCHANGED <<session, connections, logins>>

NextRows ==
    \/ OpenListing
    \/ ListTicketsPage
    \/ SearchTicketsPage

SpecRows == Init /\ [][NextRows]_vars

----------------------------------------------------------------------------
(* Claims about the pages of a listing, checked under SpecRows *)

IsListing == call.op \in {"list_tickets", "search_table_by_filter"}

\* the one total order of the listed rows for the requested sort: by the
\* requested column in the requested direction, then by ticketid
TotalOrderPosition ==
    [i \in ListedRows |->
        1 + Cardinality({j \in ListedRows :
                LET vi == RowValue(i, Lower(call.sort_by.v))
                    vj == RowValue(j, Lower(call.sort_by.v))
                IN  \/ (IF Lower(call.sort_dir.v) = S_desc THEN vj > vi ELSE vj < vi)
                    \/ vj = vi /\ j < i})]

\* the rows page p of the listing has to hold
SliceSize(p) ==
    Min(p * TICKETS_PER_PAGE, Cardinality(ListedRows)) - (p - 1) * TICKETS_PER_PAGE

\* C17: for a fixed table and a fixed valid sort, the query for page p of
\* 1..total_pages returns rows (p-1)*size+1 .. min(p*size, total) of one total
\* order, whatever way the database scans for each query; once all the pages
\* are fetched every row has come exactly once.
C17_PagesAreSlices ==
    IsListing =>
        \A position \in {TotalOrderPosition} :
            /\ \A p \in 1..Len(ret.v) :
                   /\ ret.v[p].k = "rows"
                   /\ Len(ret.v[p].v) = SliceSize(p)
                   /\ \A k \in 1..Len(ret.v[p].v) :
                          /\ ret.v[p].v[k] \in DOMAIN position
                          /\ position[ret.v[p].v[k]] = (p - 1) * TICKETS_PER_PAGE + k
            /\ call.page = TotalPages =>
                   \A i \in ListedRows :
                       Cardinality({pk \in {<<p, k>> : p \in 1..Len(ret.v),
                                                       k \in 1..TICKETS_PER_PAGE} :
                                       /\ pk[2] <= Len(ret.v[pk[1]].v)
                                       /\ ret.v[pk[1]].v[pk[2]] = i}) = 1

\* both pages of the tickets sorted by class descending are fetched, the
\* second one by a database scanning backwards: it holds the rows of class A
\* that remain after the first fifty, by ascending ticketid
C17_Witness ==
    /\ call.op = "list_tickets"
    /\ call.page = 2 /\ call.n = MaxTickets
    /\ call.sort_by = Str(<<"C", "l">>) /\ call.sort_dir = Str(T_DESC)
    /\ Len(ret.v) = 2
    /\ Len(ret.v[2].v) = MaxTickets - TICKETS_PER_PAGE
    /\ \A k \in 1..(Len(ret.v[2].v) - 1) : ret.v[2].v[k] < ret.v[2].v[k + 1]

----------------------------------------------------------------------------
(* The sort toggle and its inputs *)

\* the sort argument: absent, ticket attributes in two letter cases, and a
\* name that is no attribute
ToggleSorts == {None, Str(C_id), Str(<<"C", "l">>), Str(C_pr), Str(<<"z", "z">>)}

\* the direction argument: absent, asc, desc in two letter cases, and a word
\* that is no direction
ToggleDirs == {None, Str(S_asc), Str(S_desc), Str(T_DESC), Str(<<"u", "p">>)}

\* the togglesort argument: absent, ticket attributes in several letter
\* cases, and a name that is no attribute
Toggles ==
    {None, Str(C_id), Str(<<"I", "d">>), Str(<<"C", "L">>), Str(C_pr), Str(<<"z", "z">>)}

\* a route reads the sort of its request
ExtractTicketSort ==
    \E sort \in ToggleSorts, direction \in ToggleDirs, togglesort \in Toggles :
        /\ call' = [op |-> "extract_ticket_sort",
                    args |-> Args(None, None, None, sort, direction, togglesort)]
        /\ ret' = extract_ticket_sort(Args(None, None, None, sort, direction, togglesort))
        /\ UNCHANGED <<table_attributes, sqlLog, session, connections, logins>>

NextSort == ExtractTicketSort

SpecSort == Init /\ [][NextSort]_vars

----------------------------------------------------------------------------
(* Claims about the sort toggle, checked under SpecSort *)

IsExtractSort == call.op = "extract_ticket_sort"

\* the sort that is active in the request: its sort and direction arguments,
\* lower-cased, ticketid and asc when absent
ActiveBy == IF IsStr(call.args.sort) THEN Lower(call.args.sort.v) ELSE C_id

ActiveDir == IF IsStr(call.args.direction) THEN Lower(call.args.direction.v) ELSE S_asc

\* togglesort names a ticket attribute, in some letter case
TogglesAttribute ==
    /\ IsStr(call.args.togglesort)
    /\ \E i \in 1..Len(TICKET_FORM_ATTRIBUTES) :
           TICKET_FORM_ATTRIBUTES[i].name = Lower(call.args.togglesort.v)

\* what one call of extract_ticket_sort has to return
ToggleResult ==
    IsExtractSort =>
        IF ~TogglesAttribute
        THEN ret = [by |-> ActiveBy, dir |-> ActiveDir]
        ELSE IF Lower(call.args.togglesort.v) = ActiveBy
             THEN /\ ret.by = ActiveBy
                  /\ ActiveDir = S_asc => ret.dir = S_desc
                  /\ ActiveDir = S_desc => ret.dir = S_asc
             ELSE ret = [by |-> Lower(call.args.togglesort.v), dir |-> S_asc]

\* the next request toggles the same column again, starting from the sort
\* this request returned
ToggledAgain ==
    /\ IsExtractSort /\ TogglesAttribute
    /\ Lower(call.args.togglesort.v) = ActiveBy
    /\ ActiveDir \in {S_asc, S_desc}
    /\ call'.args.sort = Str(ret.by)
    /\ call'.args.direction = Str(ret.dir)
    /\ call'.args.togglesort = call.args.togglesort

\* C18: togglesort naming the active sort column keeps the column and flips
\* the direction (asc to desc, desc to asc), and toggling the same column
\* twice restores the direction; naming another ticket attribute makes it the
\* sort column, ascending; absent or no ticket attribute, column and direction
\* stay as they are.
C18_SortToggle ==
    [][/\ ToggleResult'
       /\ ToggledAgain => (ret'.by = ActiveBy /\ ret'.dir = ActiveDir)]_vars

\* ticketid descending toggled on Id: ticketid ascending
C18_Witness ==
    /\ IsExtractSort
    /\ call.args.sort = Str(C_id)
    /\ call.args.direction = Str(S_desc)
    /\ call.args.togglesort = Str(<<"I", "d">>)
    /\ ret = [by |-> C_id, dir |-> S_asc]

----------------------------------------------------------------------------
(* Claims about the login gate and the page redirect, checked under          *)
(* SpecRoutes                                                                *)

\* the routes without require_login
OpenRoutes == {"/login", "/logout"}

\* C19: while the session is not logged in, a request to any route other than
\* /login and /logout is answered with the redirect to the login page, its
\* handler does not run (nothing is sent to the database, session and catalog
\* stay as they are), and the only statement any request sends is the login
\* check.
C19_LoginGate ==
    [][~session.logged_in =>
          /\ call'.op \notin OpenRoutes =>
                 /\ ret' = GateRedirect
                 /\ sqlLog' = << >>
                 /\ UNCHANGED <<session, table_attributes>>
          /\ \A i \in 1..Len(sqlLog') : sqlLog'[i].sql = LoginSql]_vars

\* after a login and a logout, /tickets and /tickets/searched are answered
\* with the redirect to the login page
C19_Witness ==
    /\ call.op \in {"/tickets", "/tickets/searched"}
    /\ call.args.page = IntVal(3)
    /\ ~session.logged_in
    /\ session.userid = Str(<<"a">>)
    /\ ret = GateRedirect
    /\ sqlLog = << >>

\* the response sends the client to another page of the same search
PageRedirected ==
    /\ call.op = "/tickets/searched"
    /\ ret.k = "redirect"
    /\ ret.to = "search_tickets_result"

\* the count query of the most recent request was executed
Counted ==
    \E i \in 1..Len(sqlLog) :
        /\ sqlLog[i].sql.kind = "select"
        /\ sqlLog[i].sql.select = CountTickets
        /\ sqlLog[i].ok

\* a request for a page that is not the effective page, with matching rows,
\* is redirected to the effective page and sends no data query
RedirectsToEffectivePage ==
    /\ (call.op = "/tickets/searched" /\ Counted /\ call.total > 0
            /\ ArgPage(call.args.page) # EffectivePage) =>
           (PageRedirected /\ PagedQueries = {})
    /\ PageRedirected =>
           /\ ret.args.page = IntVal(EffectivePage)
           /\ call.total > 0
           /\ ArgPage(call.args.page) # EffectivePage

\* the next request is the one the redirect asks for, and the database
\* reports the same number of matching rows
FollowsRedirect ==
    /\ PageRedirected
    /\ call'.op = "/tickets/searched"
    /\ ArgPage(call'.args.page) = ret.args.page.n
    /\ call'.args.attribute = ret.args.attribute
    /\ call'.args.search = ret.args.search
    /\ call'.args.sort = ret.args.sort
    /\ call'.args.direction = ret.args.direction
    /\ call'.args.togglesort = None
    /\ call'.total = call.total

\* C20: in /tickets/searched with a matching row, a request whose page is not
\* the effective page is redirected to the effective page without the data
\* query, and the redirected request is not redirected to a page again: it is
\* served with the effective page whenever the database answers.
C20_NoRedirectLoop ==
    [][/\ RedirectsToEffectivePage'
       /\ FollowsRedirect =>
              /\ ~PageRedirected'
              /\ (call'.db = DbOutcome(TRUE, TRUE, TRUE)) =>
                     /\ ret'.k = "render"
                     /\ ret'.pagination.page = ret.args.page.n
                     /\ PagedQueries' # {}]_vars

\* page 4 of a search with 120 matching rows, sorted by ticketid toggled to
\* descending: redirected to page 3, no data query sent
C20_Witness ==
    /\ PageRedirected
    /\ call.args.page = IntVal(4)
    /\ call.total = 120
    /\ call.args.togglesort = Str(C_id)
    /\ ret.args.page = IntVal(3)
    /\ ret.args.direction = Str(S_desc)
    /\ Counted
    /\ PagedQueries = {}

----------------------------------------------------------------------------
(* src/routes.py: the routes that insert, update and delete *)

\* the Users table as the routes name it
Users == <<"U", "s">>

\* the firstname column, abbreviated
C_nm == <<"N", "m">>

\* the INSERT, UPDATE or DELETE statement of a table
WriteSql(kind, table) == [kind |-> kind, table |-> table]

\* database.delete_ticket, update_single_ticket, add_ticket_insert,
\* delete_user, update_single_user, add_user_insert: one statement handed to
\* execute_and_fetch with commit=True; the value is None when it failed
database_write(kind, table, execOk) ==
    [val |-> QueryResult(execOk), log |-> <<Sent(WriteSql(kind, table), execOk)>>]

\* the admin check with every session let through
admin_only_Open(sess) == TRUE

\* lines 358, 431, 512, 703, 746, 815: the check "if not session.isadmin"
admin_only(sess) == sess.isadmin

\* the rows a single-row listing renders: found is search_table_by_filter(...) or []
single_listed(found, template, pagination) ==
    Handled(found.d, found.log,
            Render(template, IF found.val.k = "none" THEN << >> ELSE found.val.v,
                   pagination))

\* /tickets/<ticketid>, lines 134-173, behind require_login
list_single_tickets(d, sess, ticketid, connOk, dataOk) ==
    IF ~require_login(sess)
    THEN Handled(d, << >>, GateRedirect)
    ELSE IF ~Parse("int", ticketid).ok
         THEN Handled(d, << >>, Redirect("list_tickets", NoArgs))
         ELSE single_listed(
                  search_table_by_filter(d, Tickets, C_id, "=", Parse("int", ticketid).val,
                                         None, None, None, None, FALSE, connOk, dataOk),
                  "list_tickets", Pagination(1, 1, 1, 0))

\* /users/<userid>, lines 593-614, behind require_login
list_single_users(d, sess, userid, connOk, dataOk) ==
    IF ~require_login(sess)
    THEN Handled(d, << >>, GateRedirect)
    ELSE single_listed(
             search_table_by_filter(d, Users, C_id, "=", Str(userid),
                                    None, None, None, None, FALSE, connOk, dataOk),
             "list_users", None)

\* a handler that sent a write and then lists the written row: the statements
\* of both, the response of the listing
written_then(written, listed) ==
    Handled(listed.d, written.log \o listed.log, listed.resp)

\* /tickets/delete/<ticketid>, lines 351-390
route_delete_ticket(d, sess, ticketid, execOk) ==
    IF ~require_login(sess)
    THEN Handled(d, << >>, GateRedirect)
    ELSE IF ~admin_only(sess)
         THEN Handled(d, << >>, Redirect("index", NoArgs))
         ELSE IF ~Parse("int", ticketid).ok
              THEN Handled(d, << >>, Redirect("list_tickets", NoArgs))
              ELSE Handled(d, database_write("delete", Tickets, execOk).log,
                           Redirect("list_tickets", NoArgs))

\* extract_from_ticket_form, lines 407-419: some_value_present, for a form
\* that may hold ticketid, class and price
ticket_value_present(form) ==
    \E i \in 1..Len(TICKET_FORM_ATTRIBUTES) :
        /\ TICKET_FORM_ATTRIBUTES[i].name # C_id
        /\ TICKET_FORM_ATTRIBUTES[i].name \in DOMAIN form
        /\ Parse(TICKET_FORM_ATTRIBUTES[i].parser, form[TICKET_FORM_ATTRIBUTES[i].name]).ok

\* /tickets/update, lines 424-465
route_update_ticket(d, sess, form, connOk, execOk, dataOk) ==
    IF ~require_login(sess)
    THEN Handled(d, << >>, GateRedirect)
    ELSE IF ~admin_only(sess)
         THEN Handled(d, << >>, Redirect("index", NoArgs))
         ELSE IF C_id \notin DOMAIN form \/ ~ticket_value_present(form)
              THEN Handled(d, << >>, Redirect("list_tickets", NoArgs))
              ELSE written_then(database_write("update", Tickets, execOk),
                                list_single_tickets(d, sess, form[C_id], connOk, dataOk))

\* /tickets/add, lines 505-568
route_add_ticket(d, sess, method, form, connOk, execOk, dataOk) ==
    IF ~require_login(sess)
    THEN Handled(d, << >>, GateRedirect)
    ELSE IF ~admin_only(sess)
         THEN Handled(d, << >>, Redirect("index", NoArgs))
         ELSE IF method = "GET"
              THEN Handled(d, << >>, Render("add_ticket", << >>, None))
              ELSE IF C_id \notin DOMAIN form
                   THEN Handled(d, << >>, Redirect("add_ticket", NoArgs))
                   ELSE IF ~execOk
                        THEN Handled(d, database_write("insert", Tickets, execOk).log,
                                     Redirect("add_ticket", NoArgs))
                        ELSE written_then(
                                 database_write("insert", Tickets, execOk),
                                 list_single_tickets(d, sess, form[C_id], connOk, dataOk))

\* /users/delete/<userid>, lines 696-712
route_delete_user(d, sess, userid, execOk) ==
    IF ~require_login(sess)
    THEN Handled(d, << >>, GateRedirect)
    ELSE IF ~admin_only(sess)
         THEN Handled(d, << >>, Redirect("index", NoArgs))
         ELSE Handled(d, database_write("delete", Users, execOk).log,
                      Redirect("list_consolidated_users", NoArgs))

\* extract_from_user_form, lines 722-734: some_value_present, for a form that
\* may hold userid and firstname, whose parser is str
user_value_present(form) == C_nm \in DOMAIN form

\* /users/update, lines 739-775
route_update_user(d, sess, form, connOk, execOk, dataOk) ==
    IF ~require_login(sess)
    THEN Handled(d, << >>, GateRedirect)
    ELSE IF ~admin_only(sess)
         THEN Handled(d, << >>, Redirect("index", NoArgs))
         ELSE IF C_id \notin DOMAIN form \/ ~user_value_present(form)
              THEN Handled(d, << >>, Redirect("list_users", NoArgs))
              ELSE written_then(database_write("update", Users, execOk),
                                list_single_users(d, sess, form[C_id], connOk, dataOk))

\* /users/add, lines 808-857
route_add_user(d, sess, method, form, connOk, execOk, dataOk) ==
    IF ~require_login(sess)
    THEN Handled(d, << >>, GateRedirect)
    ELSE IF ~admin_only(sess)
         THEN Handled(d, << >>, Redirect("index", NoArgs))
         ELSE IF method = "GET"
              THEN Handled(d, << >>, Render("add_user", << >>, None))
              ELSE IF C_id \notin DOMAIN form
                   THEN Handled(d, << >>, Redirect("add_user", NoArgs))
                   ELSE IF ~execOk
                        THEN Handled(d, database_write("insert", Users, execOk).log,
                                     Redirect("add_user", NoArgs))
                        ELSE written_then(
                                 database_write("insert", Users, execOk),
                                 list_single_users(d, sess, form[C_id], connOk, dataOk))

----------------------------------------------------------------------------
(* Two clients of the one server process *)

\* how the database answers during one writing request: whether the catalog
\* probe, the write and the listing of the written row succeed
WriteOutcome(connOk, execOk, dataOk) ==
    [connOk |-> connOk, execOk |-> execOk, dataOk |-> dataOk]

\* the database answers; fails the write; is down for the listing
WriteOutcomes ==
    {WriteOutcome(TRUE, TRUE, TRUE), WriteOutcome(TRUE, FALSE, TRUE),
     WriteOutcome(FALSE, TRUE, FALSE)}

\* the ticketid of a path: a number, a text that is none
TicketIds == {<<"7">>, <<"x">>}

\* posted ticket forms: empty; ticketid alone; with a price; with a price that
\* is no number; a ticketid that is no number with a class
TicketForms ==
    {<< >>, (C_id :> <<"7">>), (C_id :> <<"7">>) @@ (C_pr :> <<"9">>),
     (C_id :> <<"7">>) @@ (C_pr :> <<"x">>), (C_id :> <<"x">>) @@ (C_cl :> <<"a">>)}

\* posted user forms: empty; userid alone; with a firstname
UserForms ==
    {<< >>, (C_id :> <<"u">>), (C_id :> <<"u">>) @@ (C_nm :> <<"B">>)}

\* login() assigned the session, lines 928-931
LoginSucceeded(method, login_response) ==
    /\ method = "POST"
    /\ login_response.k = "rows"
    /\ Len(login_response.v) > 0

\* client c requests /login, with GET or by posting the form
ClientLogin(c) ==
    \E method \in {"GET", "POST"}, login_response \in LoginResponses :
        \E r \in {route_login(session, method, login_response)} :
            /\ method = "GET" => login_response = None
            /\ call' = [op |-> "/login", client |-> c,
                        request |-> [method |-> method, login_response |-> login_response]]
            /\ session' = r.session
            /\ ret' = r.resp
            /\ sqlLog' = r.log
            /\ logins' = [last |-> IF LoginSucceeded(method, login_response)
                                   THEN [k |-> "row", v |-> login_response.v[1]]
                                   ELSE logins.last,
                          of   |-> [logins.of EXCEPT
                                       ![c] = route_login(@, method, login_response).session]]
            /\ UNCHANGED <<table_attributes, connections>>

\* client c requests /logout
ClientLogout(c) ==
    \E r \in {route_logout(session)} :
        /\ call' = [op |-> "/logout", client |-> c, request |-> << >>]
        /\ session' = r.session
        /\ ret' = r.resp
        /\ sqlLog' = r.log
        /\ logins' = [logins EXCEPT !.of[c] = route_logout(@).session]
        /\ UNCHANGED <<table_attributes, connections>>

\* client c requests /
ClientIndex(c) ==
    \E r \in {Handled(table_attributes, << >>, route_index(session))} :
        /\ call' = [op |-> "/", client |-> c, request |-> << >>]
        /\ table_attributes' = r.d
        /\ ret' = r.resp
        /\ sqlLog' = r.log
        /\ UNCHANGED <<session, connections, logins>>

\* client c requests /tickets/delete/<ticketid>
DeleteTicketRoute(c) ==
    \E ticketid \in TicketIds, execOk \in BOOLEAN :
        \E r \in {route_delete_ticket(table_attributes, session, ticketid, execOk)} :
            /\ call' = [op |-> "/tickets/delete", client |-> c, request |-> [ticketid |-> ticketid, execOk |-> execOk]]
            /\ table_attributes' = r.d
            /\ ret' = r.resp
            /\ sqlLog' = r.log
            /\ UNCHANGED <<session, connections, logins>>

\* client c posts to /tickets/update
UpdateTicketRoute(c) ==
    \E form \in TicketForms, db \in WriteOutcomes :
        \E r \in {route_update_ticket(table_attributes, session, form, db.connOk, db.execOk, db.dataOk)} :
            /\ call' = [op |-> "/tickets/update", client |-> c, request |-> [form |-> form, db |-> db]]
            /\ table_attributes' = r.d
            /\ ret' = r.resp
            /\ sqlLog' = r.log
            /\ UNCHANGED <<session, connections, logins>>

\* client c requests /tickets/add, with GET or by posting the form
AddTicketRoute(c) ==
    \E method \in {"GET", "POST"}, form \in TicketForms, db \in WriteOutcomes :
        /\ method = "GET" => (form = << >> /\ db = WriteOutcome(TRUE, TRUE, TRUE))
        /\ \E r \in {route_add_ticket(table_attributes, session, method, form, db.connOk, db.execOk, db.dataOk)} :
               /\ call' = [op |-> "/tickets/add", client |-> c, request |-> [method |-> method, form |-> form, db |-> db]]
               /\ table_attributes' = r.d
               /\ ret' = r.resp
               /\ sqlLog' = r.log
               /\ UNCHANGED <<session, connections, logins>>

\* client c requests /users/delete/<userid>
DeleteUserRoute(c) ==
    \E userid \in {<<"u">>}, execOk \in BOOLEAN :
        \E r \in {route_delete_user(table_attributes, session, userid, execOk)} :
            /\ call' = [op |-> "/users/delete", client |-> c, request |-> [userid |-> userid, execOk |-> execOk]]
            /\ table_attributes' = r.d
            /\ ret' = r.resp
            /\ sqlLog' = r.log
            /\ UNCHANGED <<session, connections, logins>>

\* client c posts to /users/update
UpdateUserRoute(c) ==
    \E form \in UserForms, db \in WriteOutcomes :
        \E r \in {route_update_user(table_attributes, session, form, db.connOk, db.execOk, db.dataOk)} :
            /\ call' = [op |-> "/users/update", client |-> c, request |-> [form |-> form, db |-> db]]
            /\ table_attributes' = r.d
            /\ ret' = r.resp
            /\ sqlLog' = r.log
            /\ UNCHANGED <<session, connections, logins>>

\* client c requests /users/add, with GET or by posting the form
AddUserRoute(c) ==
    \E method \in {"GET", "POST"}, form \in UserForms, db \in WriteOutcomes :
        /\ method = "GET" => (form = << >> /\ db = WriteOutcome(TRUE, TRUE, TRUE))
        /\ \E r \in {route_add_user(table_attributes, session, method, form, db.connOk, db.execOk, db.dataOk)} :
               /\ call' = [op |-> "/users/add", client |-> c, request |-> [method |-> method, form |-> form, db |-> db]]
               /\ table_attributes' = r.d
               /\ ret' = r.resp
               /\ sqlLog' = r.log
               /\ UNCHANGED <<session, connections, logins>>

NextClients ==
    \E c \in Clients :
        \/ ClientLogin(c)
        \/ ClientLogout(c)
        \/ ClientIndex(c)
        \/ DeleteTicketRoute(c)
        \/ UpdateTicketRoute(c)
        \/ AddTicketRoute(c)
        \/ DeleteUserRoute(c)
        \/ UpdateUserRoute(c)
        \/ AddUserRoute(c)

SpecClients == Init /\ [][NextClients]_vars

----------------------------------------------------------------------------
(* Claims about the session and the writes, checked under SpecClients *)

\* the statements that insert, update or delete
WriteKinds == {"insert", "update", "delete"}

\* the most recent request sent a write to the database
WriteSent == \E i \in 1..Len(sqlLog) : sqlLog[i].sql.kind \in WriteKinds

\* C21: after any sequence of logins, failed logins, logouts and requests, an
\* insert, update or delete is sent only by a request that found the session
\* logged in with isadmin true, isadmin being the flag of the row of the most
\* recent successful login; the request leaves the session as it is, and a
\* session that is logged out or no admin sends no write.
C21_WritesNeedAdminSession ==
    [][/\ WriteSent' =>
              /\ session.logged_in
              /\ session.isadmin = TRUE
              /\ logins.last.k = "row"
              /\ session.isadmin = logins.last.v.isadmin
              /\ session.userid = Str(logins.last.v.userid)
              /\ UNCHANGED <<session, logins>>
       /\ (~session.logged_in \/ session.isadmin # TRUE) => ~WriteSent']_vars

\* an admin logged in after a user who is no admin had logged in, and then
\* deleted a user: the DELETE was sent and executed
C21_Witness ==
    /\ call.op = "/users/delete"
    /\ sqlLog = <<Sent(WriteSql("delete", Users), TRUE)>>
    /\ session.logged_in
    /\ session.isadmin
    /\ logins.last.k = "row"
    /\ logins.last.v.userid = <<"a">>
    /\ \E c \in Clients : logins.of[c].userid = Str(<<"u">>)

\* the request of the client passed the login gate
PassedGate == call.op \notin OpenRoutes /\ ret # GateRedirect

\* C22: a request of a client passes the login gate exactly when that client
\* logged in successfully and has not logged out since, and it sends a write
\* only if the login of that client was the login of an admin.
C22_SessionPerClient ==
    /\ call.op \notin {"none"} \cup OpenRoutes =>
           (PassedGate <=> logins.of[call.client].logged_in)
    /\ (call.op # "none" /\ WriteSent) => logins.of[call.client].isadmin = TRUE

====
